---- MODULE Spec2Model ----
(***************************************************************************)
(* A model of the stress-ng orchestrator (src/stress-ng.c): the parent     *)
(* that forks one worker per stressor instance, supervises them with       *)
(* signals, reaps and classifies their exits, validates the counters       *)
(* against their checksums and derives the process exit code.              *)
(***************************************************************************)
EXTENDS Integers, Sequences, FiniteSets, TLC

(***************************************************************************)
(* Bounds of the model.                                                    *)
(***************************************************************************)
\* number of stressors in the stressor list
NumStressors == 2
\* largest num_instances of a stressor
MaxInstances == 2
\* largest bogo-ops counter value a stressor body leaves behind
MaxCounter == 1
\* signals the environment delivers to the orchestrator in one behaviour
MaxSignals == 6
\* stray writes into the checksum table in one behaviour
MaxCorrupt == 1
\* EAGAIN failures of fork() in one behaviour
MaxEagain == 1

\* env.eagain of an environment in which fork() fails with EAGAIN at every call
ForkAlwaysEagain == -1
\* the length of the list the permutation masks are computed for
MaxPermStressors == 17
\* the options of a command line
MaxArgs == 2
\* the tokens of a --class list
MaxTokens == 2
\* the count of --random
MaxRandom == 2

(***************************************************************************)
(* Exit codes (the table of the specification, section 6) and signals.     *)
(***************************************************************************)
EXIT_SUCCESS == 0
EXIT_FAILURE == 1
EXIT_NOT_SUCCESS == 2
EXIT_NO_RESOURCE == 3
EXIT_NOT_IMPLEMENTED == 4
EXIT_SIGNALED == 5
EXIT_BY_SYS_EXIT == 6
EXIT_METRICS_UNTRUSTWORTHY == 7

SIGHUP == 1
SIGINT == 2
SIGQUIT == 3
SIGILL == 4
SIGABRT == 6
SIGBUS == 7
SIGFPE == 8
SIGKILL == 9
SIGUSR1 == 10
SIGSEGV == 11
SIGUSR2 == 12
SIGALRM == 14
SIGTERM == 15
SIGSTKFLT == 16
SIGTTIN == 21
SIGTTOU == 22
SIGXCPU == 24
SIGXFSZ == 25
SIGVTALRM == 26
SIGWINCH == 28
SIGPWR == 30

\* the signals of this system
Signals == 1 .. 31

\* lines 177-222: SIGIOT is SIGABRT, there is no SIGINFO
stress_terminate_signals ==
    {SIGHUP, SIGINT, SIGILL, SIGQUIT, SIGABRT, SIGFPE, SIGTERM, SIGXCPU, SIGXFSZ,
     SIGSTKFLT, SIGPWR, SIGVTALRM}

\* lines 224-240
stress_ignore_signals == {SIGUSR1, SIGUSR2, SIGTTOU, SIGTTIN, SIGWINCH}

\* main, lines 3504-3517: the dispositions the orchestrator starts with
MainHandlers ==
    [sig \in Signals |->
        IF sig \in stress_terminate_signals THEN "stress_handle_terminate"
        ELSE IF sig \in stress_ignore_signals THEN "SIG_IGN"
        ELSE "SIG_DFL"]

\* stress_set_handler(stress, child) on the dispositions d
SetHandler(d, child) ==
    [d EXCEPT ![SIGINT] = "stress_sigint_handler",
              ![SIGHUP] = "stress_sigint_handler",
              ![SIGUSR2] = IF child THEN @ ELSE "stress_stats_handler",
              ![SIGALRM] = "stress_sigalrm_action_handler"]

\* the dispositions of the orchestrator before ("main") and after ("run")
\* its call of stress_set_handler
Dispositions(h) == IF h = "main" THEN MainHandlers ELSE SetHandler(MainHandlers, FALSE)

ExitCodes == 0 .. 7

\* wait status words as the kernel builds them and <sys/wait.h> decodes them
StatusExited(code) == code * 256
StatusSignaled(sig) == sig
WEXITSTATUS(status) == (status \div 256) % 256
WTERMSIG(status) == status % 128
WIFSIGNALED(status) == (WTERMSIG(status) # 0) /\ (WTERMSIG(status) # 127)

(***************************************************************************)
(* The Jenkins one-at-a-time hash over the bytes of a checksum's data,     *)
(* in 32 bit unsigned arithmetic.                                          *)
(***************************************************************************)
\* A 32 bit word is the pair <<high half, low half>> of its 16 bit halves.
Half == 65536

RECURSIVE Xor16(_, _)
Xor16(a, b) ==
    IF a = 0 THEN b
    ELSE IF b = 0 THEN a
    ELSE (((a % 2) + (b % 2)) % 2) + (2 * Xor16(a \div 2, b \div 2))

RECURSIVE Pow2(_)
Pow2(n) == IF n = 0 THEN 1 ELSE 2 * Pow2(n - 1)

Add32(a, b) ==
    LET lo == a[2] + b[2]
    IN  <<(a[1] + b[1] + (lo \div Half)) % Half, lo % Half>>

Xor32(a, b) == <<Xor16(a[1], b[1]), Xor16(a[2], b[2])>>

\* shifts by less than 16 bits
Shl32(a, n) ==
    <<((a[1] * Pow2(n)) % Half) + ((a[2] * Pow2(n)) \div Half), (a[2] * Pow2(n)) % Half>>

Shr32(a, n) ==
    <<a[1] \div Pow2(n), (a[2] \div Pow2(n)) + ((a[1] % Pow2(n)) * Pow2(16 - n))>>

\* one round of the hash: h += byte; h += h << 10; h ^= h >> 6
JenkinStep(h, byte) ==
    LET h1 == Add32(h, <<0, byte>>)
        h2 == Add32(h1, Shl32(h1, 10))
    IN  Xor32(h2, Shr32(h2, 6))

RECURSIVE JenkinLoop(_, _, _)
JenkinLoop(h, bytes, i) ==
    IF i > Len(bytes) THEN h
    ELSE LET round == JenkinStep(h, bytes[i])
         IN  \* the test is always true: it makes TLC evaluate the round now
             IF round[1] >= 0 THEN JenkinLoop(round, bytes, i + 1) ELSE round

\* the final avalanche: h += h << 3; h ^= h >> 11; h += h << 15
stress_hash_jenkin(bytes) ==
    LET h0 == JenkinLoop(<<0, 0>>, bytes, 1)
        h1 == Add32(h0, Shl32(h0, 3))
        h2 == Xor32(h1, Shr32(h1, 11))
    IN  Add32(h2, Shl32(h2, 15))

\* the bytes of checksum->data: the 64 bit counter (little endian), the
\* run_ok flag and the padding
RECURSIVE LeBytes(_, _)
LeBytes(v, n) == IF n = 0 THEN << >> ELSE <<v % 256>> \o LeBytes(v \div 256, n - 1)

PadBytes == 7

DataBytes(counter, run_ok, pad) ==
    LeBytes(counter, 8) \o <<IF run_ok THEN 1 ELSE 0>> \o LeBytes(pad, PadBytes)

\* values a counter or a padding word can hold in the model (one more than
\* a body writes, so that a stray write can produce a foreign value)
CounterValues == 0 .. (MaxCounter + 1)
PadValues == 0 .. 1

HashTable ==
    [c \in CounterValues |->
        [r \in BOOLEAN |->
            [p \in PadValues |-> stress_hash_jenkin(DataBytes(c, r, p))]]]

\* stress_hash_checksum(): hash = jenkin(data)
stress_hash_checksum(ck) ==
    [ck EXCEPT !.hash = HashTable[ck.counter][ck.run_ok][ck.pad]]

ZeroChecksum == [counter |-> 0, run_ok |-> FALSE, pad |-> 0, hash |-> <<0, 0>>]


(***************************************************************************)
(* The stressor list, the shared arena and the process table.              *)
(***************************************************************************)
NIL == 0
Stressors == 1 .. NumStressors
Instances == 0 .. (MaxInstances - 1)
MaxSlots == NumStressors * MaxInstances
SlotIds == 1 .. MaxSlots
Buckets == {"PASSED", "FAILED", "SKIPPED", "BAD_METRICS"}
Regimes == {"parallel", "sequential", "permute"}

\* stress_run_permute(): const size_t max_perms = 16
max_perms == 16

VARIABLES
    opt,              \* the command line and what stress_parse_opts made of it
    cfg,              \* the selection and the options of this invocation
    pc,               \* where the orchestrator is
    cur,              \* stress_run: g_stressor_current, j, *checksum, the pid fork returned
    list,             \* stressors_head's next links, stress_run's stressors_list
    drv,              \* the regime drivers' locals: ss, next, i
    ignore_permute,   \* ss->ignore.permute
    flags,            \* the orchestrator's g_stress_continue_flag, wait_flag, terminate_signum
    handlers,         \* the orchestrator's signal dispositions
    kill_count,       \* stress_kill_stressors' static count
    result,           \* main's success, resource_success, metrics_success, the exit code
    shared,           \* g_shared: caught_sigint and instance_count
    stats,            \* g_shared->stats[]
    checksums,        \* g_shared->checksum.checksums[]
    status,           \* ss->status[]
    proc,             \* the kernel's view of the workers
    env,              \* what the environment may still do
    hist              \* history: forks, exits, what stress_wait_pid reaped, fd 2

vars == <<opt, cfg, pc, cur, list, drv, ignore_permute, flags, handlers, kill_count,
          result, shared, stats, checksums, status, proc, env, hist>>

\* a command line parsed and accepted before the run
NoOpt ==
    [argv |-> << >>, optind |-> 1, g_opt_flags |-> {}, class |-> {},
     listed |-> << >>, info |-> [s \in Stressors |-> {}]]

ZeroStats ==
    [pid |-> 0, signalled |-> FALSE, completed |-> FALSE, counter |-> 0,
     run_ok |-> FALSE, counter_ready |-> FALSE, force_killed |-> FALSE,
     checksum |-> NIL]

\* a worker that is not inside an update of a shared counter
NoReg == [at |-> 0, ld |-> FALSE, v |-> 0, rc |-> 0]

NoProc == [state |-> "none", status |-> 0, oomed |-> FALSE, cont |-> FALSE,
           inh |-> "main", term |-> 0, ck |-> NIL, reg |-> NoReg]

Live(p) == p.state \in {"forked", "init", "body"}

num_instances(s) == cfg.inst[s]
ignore_run(s) == cfg.ignore[s]

\* stress_setup_stats_buffers(): ss->stats[i] of the not ignored stressors are
\* consecutive slots of the arena, in list order
RECURSIVE SlotBase(_)
SlotBase(s) ==
    IF s = 1 THEN 0
    ELSE SlotBase(s - 1) + (IF ignore_run(s - 1) THEN 0 ELSE num_instances(s - 1))

stress_setup_stats_buffers(s, i) == SlotBase(s) + i + 1

\* the slots in use, as <<stressor, instance, slot>>
UsedSlots ==
    {<<u[1], u[2], stress_setup_stats_buffers(u[1], u[2])>> :
        u \in {v \in Stressors \X Instances :
                  ~ignore_run(v[1]) /\ v[2] < num_instances(v[1])}}

\* the stressors reachable from a node by next links, in order
RECURSIVE ListFrom(_, _)
ListFrom(s, nxt) == IF s = NIL THEN << >> ELSE <<s>> \o ListFrom(nxt[s], nxt)

(***************************************************************************)
(* Signals sent to a worker.                                               *)
(***************************************************************************)
\* what kill(pid, signum) does to the worker pid, and to caught_sigint, which
\* the worker's SIGALRM handler sets in the shared head
DeliverProc(p, signum) ==
    IF ~Live(p) THEN p
    ELSE IF signum = SIGKILL THEN
        [p EXCEPT !.state = "zombie", !.status = StatusSignaled(SIGKILL)]
    ELSE IF p.state = "forked" /\ p.inh = "main" THEN
        \* SIGALRM before the worker installed a handler: the default action
        [p EXCEPT !.state = "zombie", !.status = StatusSignaled(SIGALRM)]
    ELSE
        \* stress_sigalrm_handler in the worker: stop stressing
        [p EXCEPT !.cont = FALSE]

DeliverSetsCaught(p, signum) ==
    /\ Live(p)
    /\ signum = SIGALRM
    /\ ~(p.state = "forked" /\ p.inh = "main")

(***************************************************************************)
(* stress_kill_stressors(sig, force_sigkill), as a function of the state   *)
(* it reads: the result is the new count, stats, proc and caught_sigint.   *)
(***************************************************************************)
KillSignum(count, sig, force_sigkill) ==
    IF force_sigkill /\ count + 1 > 5 THEN SIGKILL ELSE sig

KillCount(count, force_sigkill) ==
    IF force_sigkill THEN count + 1 ELSE count

\* the slots the walk from stressors_head visits
KillTargets(st, nxt) ==
    LET walk == ListFrom(1, nxt)
        seen == {walk[n] : n \in 1 .. Len(walk)}
    IN  {u \in UsedSlots : u[1] \in seen /\ st[u[3]].pid # 0 /\ ~st[u[3]].signalled}

stress_kill_stressors(count, st, pr, caught, nxt, sig, force_sigkill) ==
    LET signum == KillSignum(count, sig, force_sigkill)
        targets == KillTargets(st, nxt)
        hit == {st[u[3]].pid : u \in targets}
        marked == {u[3] : u \in targets}
    IN  [count |-> KillCount(count, force_sigkill),
         stats |-> [k \in SlotIds |->
                      IF k \in marked THEN [st[k] EXCEPT !.signalled = TRUE]
                      ELSE st[k]],
         \* kill(-1, signum) reaches every process the caller may signal
         proc |-> [q \in SlotIds |->
                      IF q \in hit \/ -1 \in hit THEN DeliverProc(pr[q], signum)
                      ELSE pr[q]],
         caught |-> caught \/ \E q \in SlotIds :
                      (q \in hit \/ -1 \in hit) /\ DeliverSetsCaught(pr[q], signum)]


(***************************************************************************)
(* stress_run_child(): the worker.                                         *)
(***************************************************************************)
\* The steps of stress_run_child after the stressor body returned, on the
\* worker's view m of what it writes: its stats slot st, its checksum slot
\* ck, the shared instance counters ic, its return code rc and the SIGALRM
\* it may send to its parent.
LastStep == 9

\* ChildStep without the test of force_killed at line 1475
ChildStep_NoForceKilled(i, m) ==
    CASE i = 1 -> [m EXCEPT !.st.completed = TRUE]
      [] i = 2 -> [m EXCEPT !.st.run_ok = (m.rc = EXIT_SUCCESS)]
      [] i = 3 -> [m EXCEPT !.ck.run_ok = m.st.run_ok, !.ck.pad = 0]
      [] i = 4 -> [m EXCEPT !.ck.counter = m.st.counter,
                            !.rc = IF ~m.st.counter_ready
                                   THEN EXIT_METRICS_UNTRUSTWORTHY ELSE m.rc]
      [] i = 5 -> [m EXCEPT !.ck = stress_hash_checksum(m.ck)]
      [] i = 6 -> [m EXCEPT !.palrm = m.palrm \/ (m.rc # 0 /\ m.abort)]
      [] i = 7 -> [m EXCEPT !.rc = IF m.term # 0 THEN EXIT_SIGNALED ELSE m.rc,
                            !.ic.exited = m.ic.exited + 1]
      [] i = 8 -> [m EXCEPT !.ic.started = m.ic.started - 1]
      [] i = 9 -> [m EXCEPT !.ic.failed =
                       IF m.rc = EXIT_FAILURE THEN m.ic.failed + 1 ELSE m.ic.failed]

ChildStep(i, m) ==
    CASE i = 1 -> [m EXCEPT !.st.completed = TRUE]
      [] i = 2 -> [m EXCEPT !.st.run_ok = (m.rc = EXIT_SUCCESS)]
      [] i = 3 -> [m EXCEPT !.ck.run_ok = m.st.run_ok, !.ck.pad = 0]
      [] i = 4 -> [m EXCEPT !.ck.counter = m.st.counter,
                            !.rc = IF ~m.st.counter_ready /\ ~m.st.force_killed
                                   THEN EXIT_METRICS_UNTRUSTWORTHY ELSE m.rc]
      [] i = 5 -> [m EXCEPT !.ck = stress_hash_checksum(m.ck)]
      [] i = 6 -> [m EXCEPT !.palrm = m.palrm \/ (m.rc # 0 /\ m.abort)]
      [] i = 7 -> [m EXCEPT !.rc = IF m.term # 0 THEN EXIT_SIGNALED ELSE m.rc,
                            !.ic.exited = m.ic.exited + 1]
      [] i = 8 -> [m EXCEPT !.ic.started = m.ic.started - 1]
      [] i = 9 -> [m EXCEPT !.ic.failed =
                       IF m.rc = EXIT_FAILURE THEN m.ic.failed + 1 ELSE m.ic.failed]

RECURSIVE ChildSteps(_, _, _)
ChildSteps(m, i, k) ==
    IF i > k THEN m ELSE ChildSteps(ChildStep(i, m), i + 1, k)

\* the worker q, whose slot holds st0 and who sees the counters ic0, runs steps from..k and then either
\* _exit(rc)s (k = LastStep) or is killed by SIGKILL, which it cannot block
ChildFinish(q, st0, ic0, rc, from, k) ==
    LET p == proc[q]
        m0 == [st |-> st0, ck |-> checksums[p.ck], ic |-> ic0,
               rc |-> rc, palrm |-> env.palrm, abort |-> cfg.abort, term |-> p.term]
        m == ChildSteps(m0, from, k)
        exited == (k = LastStep)
    IN  /\ stats' = [stats EXCEPT ![q] = m.st]
        /\ checksums' = [checksums EXCEPT ![p.ck] = m.ck]
        /\ shared' = [shared EXCEPT !.instance_count = m.ic]
        /\ env' = [env EXCEPT !.palrm = m.palrm]
        /\ proc' = [proc EXCEPT ![q].state = "zombie",
                                ![q].status = IF exited THEN StatusExited(m.rc)
                                              ELSE StatusSignaled(SIGKILL)]
        /\ hist' = [hist EXCEPT !.failed_exit =
                        hist.failed_exit \/
                        (exited /\ m.rc \in {EXIT_FAILURE, EXIT_BY_SYS_EXIT})]

\* stress_set_handler(): SIGINT, SIGHUP and SIGALRM get the handlers of this
\* program; the parent calls it at the end of the fork loop or at
\* wait_for_stressors, a worker at line 1382
stress_set_handler == "run"

ParentRuns == pc \notin {"done", "dead", "exited"}

\* lines 1378-1382: the worker counts itself started and installs its own
\* handlers on top of the dispositions the parent had at fork (inh)
ChildInit(q) ==
    /\ ParentRuns
    /\ proc[q].state = "forked"
    /\ proc' = [proc EXCEPT ![q].state = "init"]
    /\ shared' = [shared EXCEPT !.instance_count.started = @ + 1]
    /\ UNCHANGED <<opt, cfg, pc, cur, list, drv, ignore_permute, flags, handlers, kill_count,
                   result, stats, checksums, status, env, hist>>

\* lines 1420-1437: the continue flag is set, the checksum slot is zeroed
\* and the stressor body is entered
ChildStart(q) ==
    /\ ParentRuns
    /\ proc[q].state = "init"
    /\ proc[q].cont
    /\ proc' = [proc EXCEPT ![q].state = "body"]
    /\ checksums' = [checksums EXCEPT ![proc[q].ck] = ZeroChecksum]
    /\ UNCHANGED <<opt, cfg, pc, cur, list, drv, ignore_permute, flags, handlers, kill_count,
                   result, shared, stats, status, env, hist>>

\* the same with the continue flag clear at line 1420: the body and lines
\* 1421-1489 are skipped, rc stays EXIT_SUCCESS
ChildSkip(q) ==
    /\ ParentRuns
    /\ proc[q].state = "init"
    /\ ~proc[q].cont
    /\ \E k \in cfg.killpoints \cup {LastStep} :
          /\ k >= 5
          /\ ChildFinish(q, stats[q], shared.instance_count, EXIT_SUCCESS, 6, k)
    /\ UNCHANGED <<opt, cfg, pc, cur, list, drv, ignore_permute, flags, handlers, kill_count,
                   result, status>>

\* the stressor body returns o.rc, having left its counter, counter_ready
\* and force_killed in the slot; the rest of stress_run_child follows
ChildBodyReturn(q) ==
    /\ ParentRuns
    /\ proc[q].state = "body"
    /\ \E o \in cfg.outcomes, k \in cfg.killpoints \cup {LastStep} :
          ChildFinish(q, [stats[q] EXCEPT !.counter = o.counter,
                                          !.counter_ready = o.ready,
                                          !.force_killed = o.fk],
                      shared.instance_count, o.rc, 1, k)
    /\ UNCHANGED <<opt, cfg, pc, cur, list, drv, ignore_permute, flags, handlers, kill_count,
                   result, status>>

\* exit() in the body without the atexit handler of line 1381: the process
\* ends with the code the body gave to exit()
ChildSysExit_NoGuard(q) ==
    /\ ParentRuns
    /\ proc[q].state = "body"
    /\ cfg.sysexit
    /\ proc' = [proc EXCEPT ![q].state = "zombie",
                            ![q].status = StatusExited(EXIT_SUCCESS)]
    /\ hist' = [hist EXCEPT !.failed_exit = TRUE]
    /\ UNCHANGED <<opt, cfg, pc, cur, list, drv, ignore_permute, flags, handlers, kill_count,
                   result, shared, stats, checksums, status, env>>

\* the body ends the process with exit(): stress_child_atexit turns that
\* into _exit(EXIT_BY_SYS_EXIT)
ChildSysExit(q) ==
    /\ ParentRuns
    /\ proc[q].state = "body"
    /\ cfg.sysexit
    /\ proc' = [proc EXCEPT ![q].state = "zombie",
                            ![q].status = StatusExited(EXIT_BY_SYS_EXIT)]
    /\ hist' = [hist EXCEPT !.failed_exit = TRUE]
    /\ UNCHANGED <<opt, cfg, pc, cur, list, drv, ignore_permute, flags, handlers, kill_count,
                   result, shared, stats, checksums, status, env>>

\* the body dies of a signal: a fault of its own or the OOM killer
ChildDies(q) ==
    /\ ParentRuns
    /\ proc[q].state = "body"
    /\ \E sig \in cfg.bodysigs, oomed \in cfg.oom :
          proc' = [proc EXCEPT ![q].state = "zombie", ![q].status = StatusSignaled(sig),
                                ![q].oomed = oomed]
    /\ UNCHANGED <<opt, cfg, pc, cur, list, drv, ignore_permute, flags, handlers, kill_count,
                   result, shared, stats, checksums, status, env, hist>>


(***************************************************************************)
(* stress_wait_pid() and stress_wait_stressors().                          *)
(***************************************************************************)
\* BySignal with the SIGKILL test of line 1026 left out
BySignal_KillFails(wstatus, oomed) ==
    /\ WIFSIGNALED(wstatus)
    /\ ~oomed
    /\ WTERMSIG(wstatus) # SIGALRM

\* ExitRow with the EXIT_NOT_IMPLEMENTED and EXIT_METRICS_UNTRUSTWORTHY
\* cases falling into the case of EXIT_SUCCESS
ExitRow_FewerCases(wexit_status) ==
    CASE wexit_status \in {EXIT_SUCCESS, EXIT_NOT_IMPLEMENTED,
                           EXIT_METRICS_UNTRUSTWORTHY} ->
            [bucket |-> "PASSED", fail |-> FALSE, nores |-> FALSE,
             badmetrics |-> FALSE, do_abort |-> FALSE]
      [] wexit_status = EXIT_NO_RESOURCE ->
            [bucket |-> "SKIPPED", fail |-> FALSE, nores |-> TRUE,
             badmetrics |-> FALSE, do_abort |-> TRUE]
      [] wexit_status = EXIT_SIGNALED ->
            [bucket |-> "NONE", fail |-> FALSE, nores |-> FALSE,
             badmetrics |-> FALSE, do_abort |-> TRUE]
      [] wexit_status = EXIT_BY_SYS_EXIT ->
            [bucket |-> "FAILED", fail |-> FALSE, nores |-> FALSE,
             badmetrics |-> FALSE, do_abort |-> TRUE]
      [] wexit_status = EXIT_FAILURE ->
            [bucket |-> "FAILED", fail |-> TRUE, nores |-> FALSE,
             badmetrics |-> FALSE, do_abort |-> TRUE]
      [] OTHER ->
            [bucket |-> "NONE", fail |-> TRUE, nores |-> FALSE,
             badmetrics |-> FALSE, do_abort |-> TRUE]

\* lines 996-1032: does the death by a signal clear success? oomed is
\* stress_process_oomed()'s answer
BySignal(wstatus, oomed) ==
    /\ WIFSIGNALED(wstatus)
    /\ ~oomed
    /\ WTERMSIG(wstatus) # SIGKILL
    /\ WTERMSIG(wstatus) # SIGALRM

\* lines 1033-1082: the switch on wexit_status: the status bucket that is
\* incremented ("NONE": none), the flags that are cleared, and do_abort
ExitRow(wexit_status) ==
    CASE wexit_status = EXIT_SUCCESS ->
            [bucket |-> "PASSED", fail |-> FALSE, nores |-> FALSE,
             badmetrics |-> FALSE, do_abort |-> FALSE]
      [] wexit_status = EXIT_NO_RESOURCE ->
            [bucket |-> "SKIPPED", fail |-> FALSE, nores |-> TRUE,
             badmetrics |-> FALSE, do_abort |-> TRUE]
      [] wexit_status = EXIT_NOT_IMPLEMENTED ->
            [bucket |-> "SKIPPED", fail |-> FALSE, nores |-> FALSE,
             badmetrics |-> FALSE, do_abort |-> TRUE]
      [] wexit_status = EXIT_SIGNALED ->
            [bucket |-> "NONE", fail |-> FALSE, nores |-> FALSE,
             badmetrics |-> FALSE, do_abort |-> TRUE]
      [] wexit_status = EXIT_BY_SYS_EXIT ->
            [bucket |-> "FAILED", fail |-> FALSE, nores |-> FALSE,
             badmetrics |-> FALSE, do_abort |-> TRUE]
      [] wexit_status = EXIT_METRICS_UNTRUSTWORTHY ->
            [bucket |-> "BAD_METRICS", fail |-> FALSE, nores |-> FALSE,
             badmetrics |-> TRUE, do_abort |-> FALSE]
      [] wexit_status = EXIT_FAILURE ->
            [bucket |-> "FAILED", fail |-> TRUE, nores |-> FALSE,
             badmetrics |-> FALSE, do_abort |-> TRUE]
      [] OTHER ->
            [bucket |-> "NONE", fail |-> TRUE, nores |-> FALSE,
             badmetrics |-> FALSE, do_abort |-> TRUE]

\* lines 995-1082: what a wait status does to the status bucket, the three
\* result flags and do_abort
Classify(wstatus, oomed) ==
    LET row == ExitRow(WEXITSTATUS(wstatus))
    IN  [row EXCEPT !.fail = @ \/ BySignal(wstatus, oomed)]

\* stress_stressor_finished without the store to *pid
stress_stressor_finished_KeepsPid(st, ic, k) ==
    [stats |-> st, ic |-> [ic EXCEPT !.reaped = @ + 1]]

\* stress_stressor_finished(): *pid = 0; reaped++
stress_stressor_finished(st, ic, k) ==
    [stats |-> [st EXCEPT ![k].pid = 0], ic |-> [ic EXCEPT !.reaped = @ + 1]]

\* a walk of stress_wait_stressors from the tail of the list to its head
WaitOrder_Reversed ==
    LET ss == ListFrom(list.head, list.next)
    IN  [n \in 1 .. (Len(ss) * MaxInstances) |->
            <<ss[Len(ss) - ((n - 1) \div MaxInstances)], (n - 1) % MaxInstances>>]

\* the slots stress_wait_stressors walks, in its order
WaitOrder ==
    LET ss == ListFrom(list.head, list.next)
    IN  [n \in 1 .. (Len(ss) * MaxInstances) |->
            <<ss[((n - 1) \div MaxInstances) + 1], (n - 1) % MaxInstances>>]

\* a walk that waits for the first instance of a stressor only
WaitVisits_FirstOnly(order, n) ==
    LET s == order[n][1]
        i == order[n][2]
    IN  /\ ~ignore_run(s)
        /\ ~ignore_permute[s]
        /\ i < 1
        /\ stats[stress_setup_stats_buffers(s, i)].pid # 0

\* does the walk call stress_wait_pid for the slot at position n?
WaitVisits(order, n) ==
    LET s == order[n][1]
        i == order[n][2]
    IN  /\ ~ignore_run(s)
        /\ ~ignore_permute[s]
        /\ i < num_instances(s)
        /\ stats[stress_setup_stats_buffers(s, i)].pid # 0

\* ret > 0: the worker q was reaped with wstatus while waiting on slot k of ss
stress_wait_pid(ss, k, q, wstatus, oomed) ==
    LET c == Classify(wstatus, oomed)
        aborting == cfg.abort /\ c.do_abort
        kl == stress_kill_stressors(kill_count, stats,
                                    [proc EXCEPT ![q] = NoProc],
                                    shared.caught_sigint, list.next, SIGALRM, TRUE)
        st == IF aborting THEN kl.stats ELSE stats
    IN  /\ status' = IF c.bucket = "NONE" THEN status
                     ELSE [status EXCEPT ![ss][c.bucket] = @ + 1]
        /\ result' = [result EXCEPT
                        !.success = result.success /\ ~c.fail,
                        !.resource = result.resource /\ ~c.nores,
                        !.metrics = result.metrics /\ ~c.badmetrics]
        /\ flags' = IF aborting THEN [flags EXCEPT !.cont = FALSE, !.wait = FALSE]
                    ELSE flags
        /\ kill_count' = IF aborting THEN kl.count ELSE kill_count
        /\ proc' = IF aborting THEN kl.proc ELSE [proc EXCEPT ![q] = NoProc]
        /\ stats' = stress_stressor_finished(st, shared.instance_count, k).stats
        /\ shared' = [shared EXCEPT
                        !.caught_sigint = IF aborting THEN kl.caught ELSE @,
                        !.instance_count =
                            stress_stressor_finished(st, shared.instance_count, k).ic]
        /\ hist' = [hist EXCEPT
                        !.class[q] = @ + 1,
                        !.reap[q] = @ + 1,
                        !.wstatus = wstatus,
                        !.woomed = oomed,
                        !.fin[k] = TRUE]

\* ret == -1 with ECHILD: no such child, the slot is marked reaped anyhow
stress_wait_pid_echild(k) ==
    /\ stats' = stress_stressor_finished(stats, shared.instance_count, k).stats
    /\ shared' = [shared EXCEPT !.instance_count =
                      stress_stressor_finished(stats, shared.instance_count, k).ic]
    /\ hist' = IF stats[k].pid > 0
               THEN [hist EXCEPT !.reap[stats[k].pid] = @ + 1, !.fin[k] = TRUE]
               ELSE [hist EXCEPT !.reap_unforked = TRUE, !.fin[k] = TRUE]
    /\ UNCHANGED <<status, result, flags, kill_count, proc>>

\* line 1124: g_opt_flags & OPT_FLAGS_AGGRESSIVE
Aggressive == "OPT_FLAGS_AGGRESSIVE" \in opt.g_opt_flags

\* stress_wait_stressors is at its walk of the slots (line 1130): at once
\* without --aggressive, after stress_wait_aggressive returned with it
InWalk == (pc = "run_wait" /\ ~Aggressive) \/ pc = "run_walk"

\* the slots stress_wait_aggressive polls: every instance of every stressor
\* of the list whose pid is not 0
AggrVisits(order, n) ==
    /\ order[n][2] < num_instances(order[n][1])
    /\ stats[stress_setup_stats_buffers(order[n][1], order[n][2])].pid # 0

\* stress_wait_aggressive(): the polling loop runs while wait_flag is set and
\* every polled pid is a live worker (waitpid(pid, &status, WNOHANG) returns
\* 0, sched_setaffinity succeeds).  It returns when wait_flag is clear, when
\* no slot holds a pid, or at the first polled slot whose pid is not a live
\* worker: there waitpid reaps the zombie (pid -1: any zombie) into a status
\* nothing reads, and sched_setaffinity on that pid fails (line 968)
WaitAggressive ==
    /\ pc = "run_wait"
    /\ Aggressive
    /\ LET order == WaitOrder
           polled == {n \in DOMAIN order : AggrVisits(order, n)}
           gone == {n \in polled :
                       LET pid == stats[stress_setup_stats_buffers(order[n][1],
                                                                   order[n][2])].pid
                       IN  pid = -1 \/ ~Live(proc[pid])}
       IN  \/ /\ ~flags.wait \/ polled = {}
              /\ proc' = proc
           \/ /\ flags.wait
              /\ gone # {}
              /\ LET n == CHOOSE m \in gone : \A o \in gone : m <= o
                     pid == stats[stress_setup_stats_buffers(order[n][1],
                                                             order[n][2])].pid
                 IN  \/ /\ pid > 0
                        /\ proc' = [proc EXCEPT ![pid] = NoProc]
                     \/ /\ pid = -1
                        /\ \E q \in SlotIds :
                              /\ proc[q].state = "zombie"
                              /\ proc' = [proc EXCEPT ![q] = NoProc]
                     \/ /\ pid = -1
                        /\ \A q \in SlotIds : proc[q].state # "zombie"
                        /\ proc' = proc
    /\ pc' = "run_walk"
    /\ UNCHANGED <<opt, cfg, cur, list, drv, ignore_permute, flags, handlers, kill_count,
                   result, shared, stats, checksums, status, env, hist>>

\* one call of stress_wait_pid in stress_wait_stressors' walk; waitpid blocks
\* while the child it waits for lives (EINTR: redo)
WaitPid ==
    /\ InWalk
    /\ LET order == WaitOrder
           todo == {n \in DOMAIN order : WaitVisits(order, n)}
       IN  /\ todo # {}
           /\ LET n == CHOOSE m \in todo : \A o \in todo : m <= o
                  ss == order[n][1]
                  k == stress_setup_stats_buffers(ss, order[n][2])
                  pid == stats[k].pid
              IN  \/ /\ pid > 0
                     /\ proc[pid].state = "zombie"
                     /\ stress_wait_pid(ss, k, pid, proc[pid].status, proc[pid].oomed)
                  \/ /\ pid > 0
                     /\ proc[pid].state = "none"
                     /\ stress_wait_pid_echild(k)
                  \/ /\ pid = -1
                     /\ \E q \in SlotIds :
                           /\ proc[q].state = "zombie"
                           /\ stress_wait_pid(ss, k, q, proc[q].status, proc[q].oomed)
                  \/ /\ pid = -1
                     /\ \A q \in SlotIds : proc[q].state = "none"
                     /\ stress_wait_pid_echild(k)
    /\ UNCHANGED <<opt, cfg, pc, cur, list, drv, ignore_permute, handlers, checksums, env>>

\* the walk found no slot with a pid left: stress_wait_stressors returns
WaitDone ==
    /\ InWalk
    /\ \A n \in DOMAIN WaitOrder : ~WaitVisits(WaitOrder, n)
    /\ pc' = "run_ret"
    /\ UNCHANGED <<opt, cfg, cur, list, drv, ignore_permute, flags, handlers, kill_count,
                   result, shared, stats, checksums, status, proc, env, hist>>

(***************************************************************************)
(* stress_run(): the fork loop.                                            *)
(***************************************************************************)
\* entry of stress_run for the list that starts at head
RunEnter(head, ck) ==
    /\ flags' = [flags EXCEPT !.wait = TRUE]
    /\ list' = [list EXCEPT !.head = head]
    /\ cur' = [ss |-> head, j |-> 0, ck |-> ck, pid |-> 0]
    /\ hist' = [hist EXCEPT !.fin = [k \in SlotIds |-> FALSE], !.inrun = {}]
    /\ pc' = "run_loop"

\* the for loops' tests and steps up to the body of the inner loop
RunSkip ==
    /\ pc = "run_loop"
    /\ cur.ss # NIL
    /\ \/ ignore_run(cur.ss)
       \/ ignore_permute[cur.ss]
       \/ cur.j >= num_instances(cur.ss)
    /\ cur' = [cur EXCEPT !.ss = list.next[cur.ss], !.j = 0]
    /\ UNCHANGED <<opt, cfg, pc, list, drv, ignore_permute, flags, handlers, kill_count,
                   result, shared, stats, checksums, status, proc, env, hist>>

\* both loops ended: the handlers are set and the workers waited for
RunLoopEnd ==
    /\ pc = "run_loop"
    /\ cur.ss = NIL
    /\ handlers' = stress_set_handler
    /\ pc' = "run_wait"
    /\ UNCHANGED <<opt, cfg, cur, list, drv, ignore_permute, flags, kill_count,
                   result, shared, stats, checksums, status, proc, env, hist>>

RunInBody ==
    /\ pc = "run_loop"
    /\ cur.ss # NIL
    /\ ~ignore_run(cur.ss)
    /\ ~ignore_permute[cur.ss]
    /\ cur.j < num_instances(cur.ss)

\* the jump of line 1595 without the stress_set_handler of line 1650
RunTimeout_NoHandler ==
    /\ RunInBody
    /\ cfg.timeout
    /\ pc' = "run_wait"
    /\ UNCHANGED <<opt, cfg, cur, list, drv, ignore_permute, flags, handlers, kill_count,
                   result, shared, stats, checksums, status, proc, env, hist>>

\* line 1594: the run's time is up: goto abort
RunTimeout ==
    /\ RunInBody
    /\ cfg.timeout
    /\ handlers' = stress_set_handler
    /\ pc' = "run_wait"
    /\ UNCHANGED <<opt, cfg, cur, list, drv, ignore_permute, flags, kill_count,
                   result, shared, stats, checksums, status, proc, env, hist>>

\* lines 1597-1600: the slot is prepared for the instance
RunInitSlot ==
    /\ RunInBody
    /\ stats' = [stats EXCEPT
                    ![stress_setup_stats_buffers(cur.ss, cur.j)] =
                        [@ EXCEPT !.pid = -1, !.counter_ready = TRUE, !.counter = 0,
                                  !.checksum = cur.ck]]
    /\ pc' = "run_again"
    /\ UNCHANGED <<opt, cfg, cur, list, drv, ignore_permute, flags, handlers, kill_count,
                   result, shared, checksums, status, proc, env, hist>>

\* line 1602: the continue flag is clear: break out of the instance loop
RunBreak ==
    /\ pc = "run_again"
    /\ ~flags.cont
    /\ cur' = [cur EXCEPT !.ss = list.next[cur.ss], !.j = 0]
    /\ pc' = "run_loop"
    /\ UNCHANGED <<opt, cfg, list, drv, ignore_permute, flags, handlers, kill_count,
                   result, shared, stats, checksums, status, proc, env, hist>>

\* fork() succeeds: the worker starts with copies of the parent's flags,
\* signal dispositions and checksum pointer
RunFork ==
    /\ pc = "run_again"
    /\ flags.cont
    /\ env.eagain # ForkAlwaysEagain
    /\ LET q == stress_setup_stats_buffers(cur.ss, cur.j)
       IN  /\ proc[q].state = "none"
           /\ proc' = [proc EXCEPT ![q] =
                         [state |-> "forked", status |-> 0, oomed |-> FALSE,
                          cont |-> flags.cont, inh |-> handlers, term |-> flags.term,
                          ck |-> cur.ck, reg |-> NoReg]]
           /\ cur' = [cur EXCEPT !.pid = q]
           /\ hist' = [hist EXCEPT !.forks = @ + 1, !.class[q] = 0, !.reap[q] = 0,
                                    !.inrun = @ \cup {q}]
    /\ pc' = "run_postfork"
    /\ UNCHANGED <<opt, cfg, list, drv, ignore_permute, flags, handlers, kill_count,
                   result, shared, stats, checksums, status, env>>

\* fork() fails with EAGAIN: sleep and goto again; env.eagain counts the
\* failures with EAGAIN still to come, unless they never end
\* (hist.retry flips at every retry)
RunForkEagain ==
    /\ pc = "run_again"
    /\ flags.cont
    /\ env.eagain # 0
    /\ env' = [env EXCEPT !.eagain = IF @ = ForkAlwaysEagain THEN @ ELSE @ - 1]
    /\ hist' = [hist EXCEPT !.retry = ~@]
    /\ UNCHANGED <<opt, cfg, pc, cur, list, drv, ignore_permute, flags, handlers, kill_count,
                   result, shared, stats, checksums, status, proc>>

\* fork() fails otherwise: the started workers are signalled and waited for
RunForkFails ==
    /\ pc = "run_again"
    /\ flags.cont
    /\ cfg.forkfail
    /\ env.eagain # ForkAlwaysEagain
    /\ LET kl == stress_kill_stressors(kill_count, stats, proc, shared.caught_sigint,
                                       list.next, SIGALRM, FALSE)
       IN  /\ kill_count' = kl.count
           /\ stats' = kl.stats
           /\ proc' = kl.proc
           /\ shared' = [shared EXCEPT !.caught_sigint = kl.caught]
    /\ handlers' = stress_set_handler
    /\ pc' = "run_wait"
    /\ UNCHANGED <<opt, cfg, cur, list, drv, ignore_permute, flags, result, checksums,
                   status, env, hist>>

\* RunPostFork without the (*checksum)++ of the loop step at line 1588
RunPostFork_SameChecksum ==
    /\ pc = "run_postfork"
    /\ LET k == stress_setup_stats_buffers(cur.ss, cur.j)
           st == [stats EXCEPT ![k].pid = cur.pid, ![k].signalled = FALSE]
           kl == stress_kill_stressors(kill_count, st, proc, shared.caught_sigint,
                                       list.next, SIGALRM, TRUE)
       IN  IF flags.cont
           THEN /\ stats' = st
                /\ cur' = [cur EXCEPT !.j = @ + 1, !.pid = 0]
                /\ pc' = "run_loop"
                /\ UNCHANGED <<kill_count, proc, shared, handlers>>
           ELSE /\ stats' = kl.stats
                /\ kill_count' = kl.count
                /\ proc' = kl.proc
                /\ shared' = [shared EXCEPT !.caught_sigint = kl.caught]
                /\ handlers' = stress_set_handler
                /\ cur' = [cur EXCEPT !.pid = 0]
                /\ pc' = "run_wait"
    /\ UNCHANGED <<opt, cfg, list, drv, ignore_permute, flags, result, checksums,
                   status, env, hist>>

\* lines 1625-1639 in the parent: the pid is recorded; with the continue flag
\* clear the started workers are signalled and waited for
RunPostFork ==
    /\ pc = "run_postfork"
    /\ LET k == stress_setup_stats_buffers(cur.ss, cur.j)
           st == [stats EXCEPT ![k].pid = cur.pid, ![k].signalled = FALSE]
           kl == stress_kill_stressors(kill_count, st, proc, shared.caught_sigint,
                                       list.next, SIGALRM, TRUE)
       IN  IF flags.cont
           THEN /\ stats' = st
                /\ cur' = [cur EXCEPT !.j = @ + 1, !.ck = @ + 1, !.pid = 0]
                /\ pc' = "run_loop"
                /\ UNCHANGED <<kill_count, proc, shared, handlers>>
           ELSE /\ stats' = kl.stats
                /\ kill_count' = kl.count
                /\ proc' = kl.proc
                /\ shared' = [shared EXCEPT !.caught_sigint = kl.caught]
                /\ handlers' = stress_set_handler
                /\ cur' = [cur EXCEPT !.pid = 0]
                /\ pc' = "run_wait"
    /\ UNCHANGED <<opt, cfg, list, drv, ignore_permute, flags, result, checksums,
                   status, env, hist>>


(***************************************************************************)
(* The regimes: stress_run_parallel, stress_run_sequential and             *)
(* stress_run_permute, dispatched by main.                                 *)
(***************************************************************************)
FirstChecksum == 1

\* stress_get_num_stressors() as stress_run_permute counts it, clamped
Perms ==
    LET n == Cardinality({s \in DOMAIN cfg.ignore : ~ignore_run(s)})
    IN  IF n > max_perms THEN max_perms ELSE n

\* the position j stress_run_permute gives a not ignored stressor
PermPos(s) == Cardinality({t \in DOMAIN cfg.ignore : t < s /\ ~ignore_run(t)})

\* lines 3212-3223 with bit j + 1 of i in place of bit j
PermIgnore_ShiftedBit(old, i) ==
    [s \in DOMAIN cfg.ignore |->
        IF PermPos(s) >= max_perms THEN old[s]
        ELSE IF ignore_run(s) THEN TRUE
        ELSE ((i \div Pow2(PermPos(s) + 1)) % 2) = 0]

\* lines 3212-3223: ss->ignore.permute for permutation i
PermIgnore(old, i) ==
    [s \in DOMAIN cfg.ignore |->
        IF PermPos(s) >= max_perms THEN old[s]
        ELSE IF ignore_run(s) THEN TRUE
        ELSE ((i \div Pow2(PermPos(s))) % 2) = 0]

\* main, lines 3639-3645
MainRun ==
    /\ pc = "main"
    /\ \/ /\ cfg.regime = "parallel"
          /\ RunEnter(1, FirstChecksum)
          /\ UNCHANGED <<drv, ignore_permute>>
       \/ /\ cfg.regime = "sequential"
          /\ pc' = "seq_loop"
          /\ drv' = [drv EXCEPT !.ss = 1]
          /\ cur' = [cur EXCEPT !.ck = FirstChecksum]
          /\ UNCHANGED <<list, flags, ignore_permute, hist>>
       \/ /\ cfg.regime = "permute"
          /\ pc' = "perm_loop"
          /\ ignore_permute' = [s \in Stressors |-> TRUE]
          /\ drv' = [drv EXCEPT !.i = 1]
          /\ UNCHANGED <<list, flags, cur, hist>>
    /\ UNCHANGED <<opt, cfg, handlers, kill_count, result, shared, stats, checksums,
                   status, proc, env>>

\* stress_run_sequential's loop: test, skip of an ignored stressor, or the
\* node is cut out of the list and run alone
SeqLoop ==
    /\ pc = "seq_loop"
    /\ IF drv.ss = NIL \/ ~flags.cont
       THEN /\ pc' = "check"
            /\ UNCHANGED <<drv, list, cur, flags, hist>>
       ELSE IF ignore_run(drv.ss)
       THEN /\ drv' = [drv EXCEPT !.ss = list.next[drv.ss]]
            /\ UNCHANGED <<pc, list, cur, flags, hist>>
       ELSE /\ drv' = [drv EXCEPT !.next = list.next[drv.ss]]
            /\ flags' = [flags EXCEPT !.wait = TRUE]
            /\ list' = [next |-> [list.next EXCEPT ![drv.ss] = NIL], head |-> drv.ss]
            /\ cur' = [ss |-> drv.ss, j |-> 0, ck |-> cur.ck, pid |-> 0]
            /\ hist' = [hist EXCEPT !.fin = [k \in SlotIds |-> FALSE], !.inrun = {}]
            /\ pc' = "run_loop"
    /\ UNCHANGED <<opt, cfg, ignore_permute, handlers, kill_count, result, shared, stats,
                   checksums, status, proc, env>>

\* stress_run_permute's loop: the next permutation is run in parallel, or
\* the loop ends and the permute marks are cleared
PermLoop ==
    /\ pc = "perm_loop"
    /\ IF flags.cont /\ drv.i < Pow2(Perms)
       THEN /\ ignore_permute' = PermIgnore(ignore_permute, drv.i)
            /\ RunEnter(1, FirstChecksum)
       ELSE /\ ignore_permute' = [s \in Stressors |-> FALSE]
            /\ pc' = "check"
            /\ UNCHANGED <<list, cur, flags, hist>>
    /\ UNCHANGED <<opt, cfg, drv, handlers, kill_count, result, shared, stats,
                   checksums, status, proc, env>>

\* stress_run_permute over a list of MaxPermStressors stressors, the runs
\* themselves left out: one step is one pass of the loop at line 3209, the
\* last step the loop at line 3228
PermMany ==
    /\ pc = "perm_many"
    /\ IF flags.cont /\ drv.i < Pow2(Perms)
       THEN /\ ignore_permute' = PermIgnore(ignore_permute, drv.i)
            /\ drv' = [drv EXCEPT !.i = @ + 1]
            /\ pc' = pc
       ELSE /\ ignore_permute' = [s \in DOMAIN cfg.ignore |-> FALSE]
            /\ pc' = "perm_end"
            /\ UNCHANGED drv
    /\ UNCHANGED <<opt, cfg, cur, list, flags, handlers, kill_count, result, shared,
                   stats, checksums, status, proc, env, hist>>

\* stress_run_sequential without "ss->next = next" after the run
RunReturn_NoRestore ==
    /\ pc = "run_ret"
    /\ \/ /\ cfg.regime = "parallel"
          /\ pc' = "check"
          /\ UNCHANGED <<drv, list>>
       \/ /\ cfg.regime = "sequential"
          /\ drv' = [drv EXCEPT !.ss = drv.next, !.next = NIL]
          /\ pc' = "seq_loop"
          /\ UNCHANGED list
       \/ /\ cfg.regime = "permute"
          /\ drv' = [drv EXCEPT !.i = @ + 1]
          /\ pc' = "perm_loop"
          /\ UNCHANGED list
    /\ UNCHANGED <<opt, cfg, cur, ignore_permute, flags, handlers, kill_count, result,
                   shared, stats, checksums, status, proc, env, hist>>

\* stress_run returns to the regime that called it
RunReturn ==
    /\ pc = "run_ret"
    /\ \/ /\ cfg.regime = "parallel"
          /\ pc' = "check"
          /\ UNCHANGED <<drv, list>>
       \/ /\ cfg.regime = "sequential"
          /\ list' = [list EXCEPT !.next[drv.ss] = drv.next]
          /\ drv' = [drv EXCEPT !.ss = drv.next, !.next = NIL]
          /\ pc' = "seq_loop"
       \/ /\ cfg.regime = "permute"
          /\ drv' = [drv EXCEPT !.i = @ + 1]
          /\ pc' = "perm_loop"
          /\ UNCHANGED list
    /\ UNCHANGED <<opt, cfg, cur, ignore_permute, flags, handlers, kill_count, result,
                   shared, stats, checksums, status, proc, env, hist>>

(***************************************************************************)
(* Signals the orchestrator receives.                                      *)
(***************************************************************************)
\* stress_sigint_handler (SIGINT, SIGHUP once stress_set_handler ran)
stress_sigint_handler ==
    LET kl == stress_kill_stressors(kill_count, stats, proc, TRUE, list.next,
                                    SIGALRM, TRUE)
    IN  /\ flags' = [flags EXCEPT !.cont = FALSE, !.wait = FALSE]
        /\ kill_count' = kl.count
        /\ stats' = kl.stats
        /\ proc' = kl.proc
        /\ shared' = [shared EXCEPT !.caught_sigint = kl.caught]

\* stress_handle_terminate, default branch (SIGINT, SIGHUP before that)
stress_handle_terminate(signum) ==
    LET kl == stress_kill_stressors(kill_count, stats, proc, shared.caught_sigint,
                                    list.next, SIGALRM, TRUE)
    IN  /\ flags' = [flags EXCEPT !.cont = FALSE, !.term = signum]
        /\ kill_count' = kl.count
        /\ stats' = kl.stats
        /\ proc' = kl.proc
        /\ shared' = [shared EXCEPT !.caught_sigint = kl.caught]

\* stress_sigalrm_handler in the parent
stress_sigalrm_handler ==
    LET kl == stress_kill_stressors(kill_count, stats, proc, TRUE, list.next,
                                    SIGALRM, FALSE)
    IN  /\ flags' = [flags EXCEPT !.wait = FALSE]
        /\ kill_count' = kl.count
        /\ stats' = kl.stats
        /\ proc' = kl.proc
        /\ shared' = [shared EXCEPT !.caught_sigint = kl.caught]

\* the dispositions of the worker p: those it inherited and, once it has
\* called stress_set_handler(name, true) at line 1382, its own
WorkerDispositions(p) ==
    IF p.state = "forked" THEN Dispositions(p.inh)
    ELSE SetHandler(Dispositions(p.inh), TRUE)

\* the orchestrator receives a signal of a fault: stress_handle_terminate
\* reports to fd 2, signals the workers and _exit()s, when it is the
\* handler of the signal; the default action ends the process otherwise
SigFatal(signum) ==
    /\ ParentRuns
    /\ hist' = [hist EXCEPT
                  !.fatal = signum,
                  !.diag = Dispositions(handlers)[signum] = "stress_handle_terminate"]
    /\ IF Dispositions(handlers)[signum] = "stress_handle_terminate"
       THEN LET kl == stress_kill_stressors(kill_count, stats, proc,
                                            shared.caught_sigint, list.next,
                                            SIGALRM, TRUE)
            IN  /\ flags' = [flags EXCEPT !.cont = FALSE, !.term = signum]
                /\ kill_count' = kl.count
                /\ stats' = kl.stats
                /\ proc' = kl.proc
                /\ shared' = [shared EXCEPT !.caught_sigint = kl.caught]
                /\ result' = [result EXCEPT !.code = EXIT_SIGNALED]
                /\ pc' = "exited"
       ELSE /\ pc' = "dead"
            /\ UNCHANGED <<flags, kill_count, stats, proc, shared, result>>
    /\ UNCHANGED <<opt, cfg, cur, list, drv, ignore_permute, handlers, checksums,
                   status, env>>

\* the user interrupts the orchestrator
SigInt ==
    /\ ParentRuns
    /\ env.sigs > 0
    /\ env' = [env EXCEPT !.sigs = @ - 1]
    /\ IF handlers = "run" THEN stress_sigint_handler
       ELSE stress_handle_terminate(SIGINT)
    /\ UNCHANGED <<opt, cfg, pc, cur, list, drv, ignore_permute, handlers, result,
                   checksums, status, hist>>

\* a SIGALRM sent by a worker (line 1534) is delivered: without a handler
\* its default action ends the orchestrator
SigAlrm ==
    /\ ParentRuns
    /\ env.palrm
    /\ env' = [env EXCEPT !.palrm = FALSE]
    /\ IF handlers = "run"
       THEN /\ stress_sigalrm_handler
            /\ UNCHANGED pc
       ELSE /\ pc' = "dead"
            /\ UNCHANGED <<flags, kill_count, stats, proc, shared>>
    /\ UNCHANGED <<opt, cfg, cur, list, drv, ignore_permute, handlers, result,
                   checksums, status, hist>>

(***************************************************************************)
(* stress_metrics_check() and the end of main.                             *)
(***************************************************************************)
\* SlotCorrupt without the comparison of the hashes (lines 1828-1833)
SlotCorrupt_NoHash(st, cks) ==
    \/ st.checksum = NIL
    \/ st.counter # cks[st.checksum].counter
    \/ st.run_ok # cks[st.checksum].run_ok

\* lines 1804-1833 for one completed slot: is its data dubious?
SlotCorrupt(st, cks) ==
    \/ st.checksum = NIL
    \/ st.counter # cks[st.checksum].counter
    \/ st.run_ok # cks[st.checksum].run_ok
    \/ stress_hash_checksum([counter |-> st.counter, run_ok |-> st.run_ok,
                             pad |-> 0, hash |-> <<0, 0>>]).hash
         # cks[st.checksum].hash

\* the value of ok at line 1844
stress_metrics_check ==
    \A u \in UsedSlots :
        stats[u[3]].completed => ~SlotCorrupt(stats[u[3]], checksums)

MetricsCheck ==
    /\ pc = "check"
    /\ result' = [result EXCEPT !.success = result.success /\ stress_metrics_check]
    /\ pc' = "exit"
    /\ UNCHANGED <<opt, cfg, cur, list, drv, ignore_permute, flags, handlers, kill_count,
                   shared, stats, checksums, status, proc, env, hist>>

\* MainExitCode with the tests of lines 3735 and 3737 in the other order
MainExitCode_MetricsFirst(success, resource_success, metrics_success) ==
    IF ~success THEN EXIT_NOT_SUCCESS
    ELSE IF ~metrics_success THEN EXIT_METRICS_UNTRUSTWORTHY
    ELSE IF ~resource_success THEN EXIT_NO_RESOURCE
    ELSE EXIT_SUCCESS

\* lines 3733-3739
MainExitCode(success, resource_success, metrics_success) ==
    IF ~success THEN EXIT_NOT_SUCCESS
    ELSE IF ~resource_success THEN EXIT_NO_RESOURCE
    ELSE IF ~metrics_success THEN EXIT_METRICS_UNTRUSTWORTHY
    ELSE EXIT_SUCCESS

MainExit ==
    /\ pc = "exit"
    /\ result' = [result EXCEPT
                    !.code = MainExitCode(result.success, result.resource, result.metrics)]
    /\ pc' = "done"
    /\ UNCHANGED <<opt, cfg, cur, list, drv, ignore_permute, flags, handlers, kill_count,
                   shared, stats, checksums, status, proc, env, hist>>

\* a stray write lands in the checksum table before it is inspected
Corrupt ==
    /\ pc = "check"
    /\ env.corrupt > 0
    /\ env' = [env EXCEPT !.corrupt = @ - 1]
    /\ \E u \in UsedSlots :
          /\ stats[u[3]].checksum # NIL
          /\ \/ \E c \in CounterValues :
                   checksums' = [checksums EXCEPT ![stats[u[3]].checksum].counter = c]
             \/ checksums' = [checksums EXCEPT ![stats[u[3]].checksum].run_ok = ~@]
             \/ checksums' = [checksums EXCEPT ![stats[u[3]].checksum].hash = <<0, 1>>]
    /\ UNCHANGED <<opt, cfg, pc, cur, list, drv, ignore_permute, flags, handlers, kill_count,
                   result, shared, stats, status, proc, hist>>


(***************************************************************************)
(* Invocations and the specifications.                                     *)
(***************************************************************************)
\* return codes of a stressor body: the named ones and one unnamed
BodyCodes == ExitCodes \cup {8}

AllOutcomes ==
    [rc : BodyCodes, counter : 0 .. MaxCounter, ready : BOOLEAN, fk : BOOLEAN]

\* bodies that keep their counter ready
ReadyOutcomes(codes) ==
    [rc : codes, counter : {MaxCounter}, ready : {TRUE}, fk : {FALSE}]

InitRun(c, o) ==
    /\ opt = o
    /\ cfg = c
    /\ pc = "main"
    /\ cur = [ss |-> NIL, j |-> 0, ck |-> FirstChecksum, pid |-> 0]
    /\ list = [next |-> [s \in Stressors |-> IF s < NumStressors THEN s + 1 ELSE NIL],
               head |-> NIL]
    /\ drv = [ss |-> NIL, next |-> NIL, i |-> 0]
    /\ ignore_permute = [s \in Stressors |-> FALSE]
    /\ flags = [cont |-> TRUE, wait |-> TRUE, term |-> 0]
    /\ handlers = "main"
    /\ kill_count = 0
    /\ result = [success |-> TRUE, resource |-> TRUE, metrics |-> TRUE, code |-> -1]
    /\ shared = [caught_sigint |-> FALSE,
                 instance_count |-> [started |-> 0, exited |-> 0, reaped |-> 0, failed |-> 0]]
    /\ stats = [k \in SlotIds |-> ZeroStats]
    /\ checksums = [k \in SlotIds |-> ZeroChecksum]
    /\ status = [s \in Stressors |-> [b \in Buckets |-> 0]]
    /\ proc = [q \in SlotIds |-> NoProc]
    /\ env = [palrm |-> FALSE, sigs |-> c.sigs, corrupt |-> c.corrupt, eagain |-> c.eagain]
    /\ hist = [failed_exit |-> FALSE, forks |-> 0,
               class |-> [q \in SlotIds |-> 0], reap |-> [q \in SlotIds |-> 0],
               reap_unforked |-> FALSE, wstatus |-> -1, woomed |-> FALSE,
               fin |-> [k \in SlotIds |-> FALSE], fatal |-> 0, diag |-> FALSE,
               retry |-> FALSE, inrun |-> {}]

\* a run whose command line set no flag the run looks at
InitWith(c) == InitRun(c, NoOpt)

\* the driver of the regimes and the fork loop
Orchestrator ==
    \/ MainRun
    \/ RunSkip
    \/ RunLoopEnd
    \/ RunTimeout
    \/ RunInitSlot
    \/ RunBreak
    \/ RunFork
    \/ RunForkEagain
    \/ RunForkFails
    \/ RunPostFork
    \/ WaitPid
    \/ WaitDone
    \/ RunReturn
    \/ MetricsCheck
    \/ MainExit

Worker ==
    \E q \in SlotIds :
        \/ ChildInit(q)
        \/ ChildStart(q)
        \/ ChildSkip(q)
        \/ ChildBodyReturn(q)
        \/ ChildSysExit(q)
        \/ ChildDies(q)

\* Spec: every regime over two stressors, one user interrupt. In the parallel
\* and sequential regimes bodies succeed, fail or call exit(), the OOM killer
\* may take a worker, fork may fail and the run may time out; the second
\* stressor of a sequential run may have MaxInstances instances
RunConfigs ==
    [inst : {i \in [Stressors -> 1 .. MaxInstances] :
                \A s \in Stressors : s # 2 => i[s] = 1},
     ignore : {[s \in Stressors |-> FALSE]},
     regime : {"parallel", "sequential"},
     abort : BOOLEAN,
     outcomes : {ReadyOutcomes({EXIT_SUCCESS, EXIT_FAILURE})},
     killpoints : {{}},
     bodysigs : {{SIGKILL}},
     sysexit : {TRUE},
     oom : {{TRUE}},
     timeout : {TRUE},
     forkfail : {TRUE},
     sigs : {1},
     corrupt : {0},
     eagain : {MaxEagain}]

\* the permutation regime runs every non-empty subset of the stressors, one
\* instance each, with bodies that succeed or fail
PermuteConfigs ==
    [inst : {[s \in Stressors |-> 1]},
     ignore : {[s \in Stressors |-> s = t] : t \in {NIL, 1}},
     regime : {"permute"},
     abort : BOOLEAN,
     outcomes : {ReadyOutcomes({EXIT_SUCCESS, EXIT_FAILURE})},
     killpoints : {{}},
     bodysigs : {{}},
     sysexit : {FALSE},
     oom : {{FALSE}},
     timeout : {FALSE},
     forkfail : {FALSE},
     sigs : {1},
     corrupt : {0},
     eagain : {0}]

Init ==
    \E c \in RunConfigs \cup PermuteConfigs :
        /\ c.regime = "parallel" => \A s \in Stressors : c.inst[s] = 1
        /\ InitWith(c)

Next ==
    \/ Orchestrator
    \/ SeqLoop
    \/ PermLoop
    \/ SigInt
    \/ SigAlrm
    \/ Worker

Spec == Init /\ [][Next]_vars

\* SpecChild: one worker in a parallel run, with every outcome of its body,
\* every point at which it can be killed and a stray write to its checksum
ChildConfigs ==
    [inst : {[s \in Stressors |-> IF s = 1 THEN 1 ELSE 0]},
     ignore : {[s \in Stressors |-> FALSE]},
     regime : {"parallel"},
     abort : BOOLEAN,
     outcomes : {AllOutcomes},
     killpoints : {0 .. (LastStep - 1)},
     bodysigs : {{SIGKILL, SIGSEGV, SIGALRM}},
     sysexit : {TRUE},
     oom : {BOOLEAN},
     timeout : {TRUE},
     forkfail : {TRUE},
     sigs : {1},
     corrupt : {MaxCorrupt},
     eagain : {MaxEagain}]

InitChild == \E c \in ChildConfigs : InitWith(c)

NextChild ==
    \/ Orchestrator
    \/ SigInt
    \/ SigAlrm
    \/ Corrupt
    \/ Worker

SpecChild == InitChild /\ [][NextChild]_vars


\* SpecExit: two workers in a parallel run whose bodies end with the codes
\* that drive the three result flags
ExitConfigs ==
    [inst : {[s \in Stressors |-> 1]},
     ignore : {[s \in Stressors |-> FALSE]},
     regime : {"parallel"},
     abort : {FALSE},
     outcomes : {ReadyOutcomes({EXIT_SUCCESS, EXIT_FAILURE, EXIT_NO_RESOURCE,
                                EXIT_METRICS_UNTRUSTWORTHY})},
     killpoints : {{}},
     bodysigs : {{SIGSEGV}},
     sysexit : {FALSE},
     oom : {{FALSE}},
     timeout : {FALSE},
     forkfail : {FALSE},
     sigs : {0},
     corrupt : {0},
     eagain : {0}]

InitExit == \E c \in ExitConfigs : InitWith(c)

NextExit ==
    \/ MainRun
    \/ RunSkip
    \/ RunLoopEnd
    \/ RunInitSlot
    \/ RunFork
    \/ RunPostFork
    \/ WaitPid
    \/ WaitDone
    \/ RunReturn
    \/ MetricsCheck
    \/ MainExit
    \/ \E q \in SlotIds : ChildInit(q) \/ ChildStart(q) \/ ChildBodyReturn(q) \/ ChildDies(q)

SpecExit == InitExit /\ [][NextExit]_vars

\* SpecKill: a parallel run whose workers may ignore SIGALRM, under a user
\* who keeps interrupting the orchestrator
KillConfigs ==
    [inst : {[s \in Stressors |-> 1]},
     ignore : {[s \in Stressors |-> FALSE]},
     regime : {"parallel"},
     abort : BOOLEAN,
     outcomes : {ReadyOutcomes({EXIT_SUCCESS, EXIT_FAILURE})},
     killpoints : {{}},
     bodysigs : {{}},
     sysexit : {FALSE},
     oom : {{FALSE}},
     timeout : {FALSE},
     forkfail : {FALSE},
     sigs : {MaxSignals},
     corrupt : {0},
     eagain : {0}]

InitKill == \E c \in KillConfigs : InitWith(c)

NextKill ==
    \/ MainRun
    \/ RunSkip
    \/ RunLoopEnd
    \/ RunInitSlot
    \/ RunBreak
    \/ RunFork
    \/ RunPostFork
    \/ WaitPid
    \/ WaitDone
    \/ RunReturn
    \/ MetricsCheck
    \/ MainExit
    \/ SigInt
    \/ SigAlrm
    \/ \E q \in SlotIds : ChildInit(q) \/ ChildStart(q) \/ ChildSkip(q) \/ ChildBodyReturn(q)

SpecKill == InitKill /\ [][NextKill]_vars

\* SpecPermute: the permutation regime. Its runs, over the stressors of
\* PermuteConfigs, and its masks alone over a list longer than max_perms, with
\* none or the second of its stressors ignored
ManyConfigs ==
    [inst : {[s \in 1 .. MaxPermStressors |-> 1]},
     ignore : {[s \in 1 .. MaxPermStressors |-> s = t] : t \in {NIL, 2}},
     regime : {"permute"},
     abort : {FALSE},
     outcomes : {ReadyOutcomes({EXIT_SUCCESS})},
     killpoints : {{}},
     bodysigs : {{}},
     sysexit : {FALSE},
     oom : {{FALSE}},
     timeout : {FALSE},
     forkfail : {FALSE},
     sigs : {0},
     corrupt : {0},
     eagain : {0}]

\* the state after the first loop of stress_run_permute (lines 3195-3199)
InitMany(c) ==
    /\ opt = NoOpt
    /\ cfg = c
    /\ pc = "perm_many"
    /\ cur = [ss |-> NIL, j |-> 0, ck |-> FirstChecksum, pid |-> 0]
    /\ list = [next |-> [s \in DOMAIN c.ignore |->
                            IF s < MaxPermStressors THEN s + 1 ELSE NIL],
               head |-> NIL]
    /\ drv = [ss |-> NIL, next |-> NIL, i |-> 1]
    /\ ignore_permute = [s \in DOMAIN c.ignore |-> TRUE]
    /\ flags = [cont |-> TRUE, wait |-> TRUE, term |-> 0]
    /\ handlers = "main"
    /\ kill_count = 0
    /\ result = [success |-> TRUE, resource |-> TRUE, metrics |-> TRUE, code |-> -1]
    /\ shared = [caught_sigint |-> FALSE,
                 instance_count |-> [started |-> 0, exited |-> 0, reaped |-> 0, failed |-> 0]]
    /\ stats = [k \in SlotIds |-> ZeroStats]
    /\ checksums = [k \in SlotIds |-> ZeroChecksum]
    /\ status = [s \in DOMAIN c.ignore |-> [b \in Buckets |-> 0]]
    /\ proc = [q \in SlotIds |-> NoProc]
    /\ env = [palrm |-> FALSE, sigs |-> c.sigs, corrupt |-> c.corrupt, eagain |-> c.eagain]
    /\ hist = [failed_exit |-> FALSE, forks |-> 0,
               class |-> [q \in SlotIds |-> 0], reap |-> [q \in SlotIds |-> 0],
               reap_unforked |-> FALSE, wstatus |-> -1, woomed |-> FALSE,
               fin |-> [k \in SlotIds |-> FALSE], fatal |-> 0, diag |-> FALSE,
               retry |-> FALSE, inrun |-> {}]

InitPermute ==
    \/ \E c \in PermuteConfigs : InitWith(c)
    \/ \E c \in ManyConfigs : InitMany(c)

NextPermute ==
    \/ MainRun
    \/ RunSkip
    \/ RunLoopEnd
    \/ RunInitSlot
    \/ RunBreak
    \/ RunFork
    \/ RunPostFork
    \/ WaitPid
    \/ WaitDone
    \/ RunReturn
    \/ MetricsCheck
    \/ MainExit
    \/ PermLoop
    \/ PermMany
    \/ SigInt
    \/ SigAlrm
    \/ \E q \in SlotIds : ChildInit(q) \/ ChildStart(q) \/ ChildSkip(q) \/ ChildBodyReturn(q)

SpecPermute == InitPermute /\ [][NextPermute]_vars

\* SpecAll: --all over a single stressor (the other one of the list is
\* ignored) with 1 .. MaxInstances instances whose bodies return
\* EXIT_SUCCESS; no signal arrives, fork does not fail, no timeout. The
\* orchestrator and every worker are processes the kernel keeps scheduling.
AllConfigs ==
    [inst : {[s \in Stressors |-> n] : n \in 1 .. MaxInstances},
     ignore : {[s \in Stressors |-> s # t] : t \in Stressors},
     regime : {"parallel"},
     abort : BOOLEAN,
     outcomes : {[rc : {EXIT_SUCCESS}, counter : 0 .. MaxCounter,
                  ready : {TRUE}, fk : {FALSE}]},
     killpoints : {{}},
     bodysigs : {{}},
     sysexit : {FALSE},
     oom : {{FALSE}},
     timeout : {FALSE},
     forkfail : {FALSE},
     sigs : {0},
     corrupt : {0},
     eagain : {0}]

InitAll == \E c \in AllConfigs : InitWith(c)

OrchestratorAll ==
    \/ MainRun
    \/ RunSkip
    \/ RunLoopEnd
    \/ RunInitSlot
    \/ RunFork
    \/ RunPostFork
    \/ WaitPid
    \/ WaitDone
    \/ RunReturn
    \/ MetricsCheck
    \/ MainExit

WorkerAll(q) == ChildInit(q) \/ ChildStart(q) \/ ChildBodyReturn(q)

NextAll == OrchestratorAll \/ \E q \in SlotIds : WorkerAll(q)

SpecAll ==
    /\ InitAll
    /\ [][NextAll]_vars
    /\ WF_vars(OrchestratorAll)
    /\ \A q \in SlotIds : WF_vars(WorkerAll(q))

(***************************************************************************)
(* The command line: stress_parse_opts() and the sanity checks of main.    *)
(* A string is a sequence of characters. A class mask is the set of the    *)
(* indices of its classes in stress_classes, 0 the empty set: the CLASS_*  *)
(* bits are taken to be distinct.                                          *)
(***************************************************************************)
stress_classes ==
    <<<<"c", "p", "u", "-", "c", "a", "c", "h", "e">>,
      <<"c", "p", "u">>,
      <<"d", "e", "v", "i", "c", "e">>,
      <<"f", "i", "l", "e", "s", "y", "s", "t", "e", "m">>,
      <<"g", "p", "u">>,
      <<"i", "n", "t", "e", "r", "r", "u", "p", "t">>,
      <<"i", "o">>,
      <<"m", "e", "m", "o", "r", "y">>,
      <<"n", "e", "t", "w", "o", "r", "k">>,
      <<"o", "s">>,
      <<"p", "i", "p", "e">>,
      <<"s", "c", "h", "e", "d", "u", "l", "e", "r">>,
      <<"s", "e", "c", "u", "r", "i", "t", "y">>,
      <<"v", "m">>>>

\* stress_get_class_id(): the class of a name, 0 when there is none
stress_get_class_id(str) ==
    {i \in DOMAIN stress_classes : stress_classes[i] = str}

\* the tokens the calls of strtok(str, ",") return for a string
RECURSIVE Strtok(_)
Strtok(str) ==
    IF str = << >> THEN << >>
    ELSE IF Head(str) = "," THEN Strtok(Tail(str))
    ELSE LET ends == {n \in 1 .. Len(str) : str[n] = ","}
             n == IF ends = {} THEN Len(str) + 1
                  ELSE CHOOSE m \in ends : \A o \in ends : m <= o
         IN  <<SubSeq(str, 1, n - 1)>> \o Strtok(SubSeq(str, n + 1, Len(str)))

\* the loop of stress_get_class from token n on: ret, *class, and the class
\* whose stressors were printed
RECURSIVE GetClassLoop(_, _, _)
GetClassLoop(toks, n, class) ==
    IF n > Len(toks) THEN [ret |-> 0, class |-> class, printed |-> {}]
    ELSE LET token == toks[n]
             cl == stress_get_class_id(token)
             len == Len(token)
             cut == SubSeq(token, 1, len - 1)
         IN  IF cl # {} THEN GetClassLoop(toks, n + 1, class \cup cl)
             ELSE IF len > 1 /\ token[len] = "?" /\ stress_get_class_id(cut) # {}
             THEN [ret |-> 1, class |-> class, printed |-> stress_get_class_id(cut)]
             ELSE [ret |-> -1, class |-> class, printed |-> {}]

\* stress_get_class() that does not know the '?' query
stress_get_class_NoQuery(class_str) ==
    LET toks == Strtok(class_str)
        bad == {n \in 1 .. Len(toks) : stress_get_class_id(toks[n]) = {}}
    IN  IF bad # {} THEN [ret |-> -1, class |-> {}, printed |-> {}]
        ELSE GetClassLoop(toks, 1, {})

stress_get_class(class_str) == GetClassLoop(Strtok(class_str), 1, {})

\* the flags an option without a class list sets: opt_flags[] and the switch
OptFlags(name) ==
    CASE name = "maximize" -> {"OPT_FLAGS_MAXIMIZE"}
      [] name = "minimize" -> {"OPT_FLAGS_MINIMIZE"}
      [] name = "no-rand-seed" -> {"OPT_FLAGS_NO_RAND_SEED"}
      [] name = "stderr" -> {"OPT_FLAGS_STDERR"}
      [] name = "stdout" -> {"OPT_FLAGS_STDOUT"}
      [] name = "all" -> {"OPT_FLAGS_ALL"}
      [] name = "random" -> {"OPT_FLAGS_RANDOM"}
      [] name = "seed" -> {"OPT_FLAGS_SEED"}
      [] name = "sequential" -> {"OPT_FLAGS_SEQUENTIAL"}
      [] name = "permute" -> {"OPT_FLAGS_PERMUTE"}
      [] name = "with" -> {"OPT_FLAGS_WITH", "OPT_FLAGS_SET"}

\* stress_enable_classes(): the flag it sets
stress_enable_classes(class) == IF class = {} THEN {} ELSE {"OPT_FLAGS_SET"}

\* one pass of the loop of stress_parse_opts; a failure returns to main,
\* which exits with it
ParseOpt ==
    /\ pc = "parse_opts"
    /\ opt.optind <= Len(opt.argv)
    /\ LET o == opt.argv[opt.optind]
           gc == stress_get_class(o[2])
       IN  IF o[1] # "class"
           THEN /\ opt' = [opt EXCEPT !.optind = @ + 1,
                                      !.g_opt_flags = @ \cup OptFlags(o[1])]
                /\ UNCHANGED <<pc, result>>
           ELSE IF gc.ret < 0
           THEN /\ pc' = "done"
                /\ result' = [result EXCEPT !.code = EXIT_FAILURE]
                /\ UNCHANGED opt
           ELSE IF gc.ret > 0
           THEN /\ pc' = "done"
                /\ result' = [result EXCEPT !.code = EXIT_SUCCESS]
                /\ opt' = [opt EXCEPT !.listed =
                              <<gc.printed,
                                {s \in Stressors : opt.info[s] \cap gc.printed # {}}>>]
           ELSE /\ opt' = [opt EXCEPT !.optind = @ + 1,
                                      !.class = gc.class,
                                      !.g_opt_flags = @ \cup stress_enable_classes(gc.class)]
                /\ UNCHANGED <<pc, result>>
    /\ UNCHANGED <<cfg, cur, list, drv, ignore_permute, flags, handlers, kill_count,
                   shared, stats, checksums, status, proc, env, hist>>

\* getopt_long found no further option
ParseOptsReturn ==
    /\ pc = "parse_opts"
    /\ opt.optind > Len(opt.argv)
    /\ pc' = "sanity"
    /\ UNCHANGED <<opt, result, cfg, cur, list, drv, ignore_permute, flags, handlers, kill_count,
                   shared, stats, checksums, status, proc, env, hist>>

\* main, lines 3348-3421: the tests that end the run with EXIT_FAILURE
SanityFails(g_opt_flags, class) ==
    LET selected ==
            g_opt_flags \cap {"OPT_FLAGS_SEQUENTIAL", "OPT_FLAGS_ALL", "OPT_FLAGS_PERMUTE"}
    IN  \/ {"OPT_FLAGS_STDERR", "OPT_FLAGS_STDOUT"} \subseteq g_opt_flags
        \/ {"OPT_FLAGS_MAXIMIZE", "OPT_FLAGS_MINIMIZE"} \subseteq g_opt_flags
        \/ Cardinality(g_opt_flags \cap {"OPT_FLAGS_RANDOM", "OPT_FLAGS_SEQUENTIAL",
                                         "OPT_FLAGS_ALL", "OPT_FLAGS_PERMUTE"}) > 1
        \/ class # {} /\ selected = {}
        \/ {"OPT_FLAGS_NO_RAND_SEED", "OPT_FLAGS_SEED"} \subseteq g_opt_flags
        \/ "OPT_FLAGS_WITH" \in g_opt_flags /\ selected = {}

MainSanity ==
    /\ pc = "sanity"
    /\ IF SanityFails(opt.g_opt_flags, opt.class)
       THEN /\ pc' = "done"
            /\ result' = [result EXCEPT !.code = EXIT_FAILURE]
       ELSE /\ pc' = "setup"
            /\ UNCHANGED result
    /\ UNCHANGED <<opt, cfg, cur, list, drv, ignore_permute, flags, handlers, kill_count,
                   shared, stats, checksums, status, proc, env, hist>>

\* SpecOpts: command lines of up to MaxArgs options, a --class list of up to
\* MaxTokens tokens, over stressors of the classes io and os
RECURSIVE JoinTokens(_)
JoinTokens(ts) ==
    IF Len(ts) = 1 THEN ts[1] ELSE ts[1] \o <<",">> \o JoinTokens(Tail(ts))

ClassTokens ==
    {<< >>, <<"?">>, <<"i", "o">>, <<"o", "s">>, <<"x">>, <<"i", "o", "?">>,
     <<"o", "s", "?">>, <<"x", "?">>, <<"i", "o", "?", "?">>}

ClassStrings ==
    {JoinTokens(ts) : ts \in UNION {[1 .. n -> ClassTokens] : n \in 1 .. MaxTokens}}

Options ==
    {<<name>> : name \in {"maximize", "minimize", "no-rand-seed", "stderr", "stdout",
                          "all", "random", "seed", "sequential", "permute", "with"}}
    \cup {<<"class", str>> : str \in ClassStrings}

InitOpts ==
    /\ \E argv \in UNION {[1 .. n -> Options] : n \in 0 .. MaxArgs} :
       \E n \in {1, NumStressors} :
          opt = [argv |-> argv, optind |-> 1, g_opt_flags |-> {}, class |-> {},
                 listed |-> << >>,
                 info |-> [s \in Stressors |->
                             IF s <= n THEN stress_get_class_id(<<"i", "o">>)
                             ELSE stress_get_class_id(<<"i", "o">>)
                                  \cup stress_get_class_id(<<"o", "s">>)]]
    /\ pc = "parse_opts"
    /\ cfg = CHOOSE c \in AllConfigs : TRUE
    /\ cur = [ss |-> NIL, j |-> 0, ck |-> FirstChecksum, pid |-> 0]
    /\ list = [next |-> [s \in Stressors |-> IF s < NumStressors THEN s + 1 ELSE NIL],
               head |-> NIL]
    /\ drv = [ss |-> NIL, next |-> NIL, i |-> 0]
    /\ ignore_permute = [s \in Stressors |-> FALSE]
    /\ flags = [cont |-> TRUE, wait |-> TRUE, term |-> 0]
    /\ handlers = "main"
    /\ kill_count = 0
    /\ result = [success |-> TRUE, resource |-> TRUE, metrics |-> TRUE, code |-> -1]
    /\ shared = [caught_sigint |-> FALSE,
                 instance_count |-> [started |-> 0, exited |-> 0, reaped |-> 0, failed |-> 0]]
    /\ stats = [k \in SlotIds |-> ZeroStats]
    /\ checksums = [k \in SlotIds |-> ZeroChecksum]
    /\ status = [s \in Stressors |-> [b \in Buckets |-> 0]]
    /\ proc = [q \in SlotIds |-> NoProc]
    /\ env = [palrm |-> FALSE, sigs |-> 0, corrupt |-> 0, eagain |-> 0]
    /\ hist = [failed_exit |-> FALSE, forks |-> 0,
               class |-> [q \in SlotIds |-> 0], reap |-> [q \in SlotIds |-> 0],
               reap_unforked |-> FALSE, wstatus |-> -1, woomed |-> FALSE,
               fin |-> [k \in SlotIds |-> FALSE], fatal |-> 0, diag |-> FALSE,
               retry |-> FALSE, inrun |-> {}]

NextOpts == ParseOpt \/ ParseOptsReturn \/ MainSanity

SpecOpts == InitOpts /\ [][NextOpts]_vars

(***************************************************************************)
(* Selection: main, lines 3444-3534. num_instances and ignore.run of the   *)
(* stressors are cfg.inst and cfg.ignore; the options are in opt: the sets *)
(* of stressors that are of CLASS_PATHOLOGICAL, whose supported hook       *)
(* returns a negative value and that --exclude names, the count of         *)
(* --random and the instances of --all, --sequential and --permute.        *)
(***************************************************************************)
\* stress_get_num_stressors()
stress_get_num_stressors(ign) == Cardinality({s \in Stressors : ~ign[s]})

\* the loop of stress_get_nth_stressor from the node ss with i counted
RECURSIVE NthWalk(_, _, _, _)
NthWalk(ss, i, n, ign) ==
    IF ss = NIL \/ i >= n THEN ss
    ELSE NthWalk(list.next[ss], IF ~ign[ss] THEN i + 1 ELSE i, n, ign)

\* stress_get_nth_stressor(): the node the walk from stressors_head stops at
stress_get_nth_stressor(n, ign) == NthWalk(1, 0, n, ign)

\* stress_exclude_unsupported(): the hook is asked for the stressors that
\* are not ignored and have instances
stress_exclude_unsupported(inst, ign) ==
    [s \in Stressors |-> ign[s] \/ (inst[s] # 0 /\ s \in opt.unsupported)]

\* stress_exclude_pathological()
stress_exclude_pathological(ign) ==
    IF "OPT_FLAGS_PATHOLOGICAL" \in opt.g_opt_flags THEN ign
    ELSE [s \in Stressors |-> ign[s] \/ s \in opt.pathological]

\* stress_exclude() that tags nothing
stress_exclude_Nothing(ign) == ign

\* stress_exclude(): the stressors named in --exclude
stress_exclude(ign) == [s \in Stressors |-> ign[s] \/ s \in opt.exclude]

\* stress_enable_all_stressors() without --with
stress_enable_all_stressors(inst, instances) ==
    IF "OPT_FLAGS_SET" \in opt.g_opt_flags THEN inst
    ELSE [s \in Stressors |-> instances]

\* stress_setup_sequential() and stress_setup_parallel(): num_instances
stress_setup(inst, instances) ==
    [s \in Stressors |-> IF opt.info[s] \cap opt.class # {} THEN instances ELSE inst[s]]

\* lines 3444-3454
MainEnable ==
    /\ pc = "enable"
    /\ cfg' = [cfg EXCEPT !.inst =
                  IF "OPT_FLAGS_RANDOM" \in opt.g_opt_flags
                  THEN stress_enable_all_stressors(cfg.inst, 0)
                  ELSE IF opt.g_opt_flags \cap {"OPT_FLAGS_SEQUENTIAL", "OPT_FLAGS_ALL",
                                                "OPT_FLAGS_PERMUTE"} # {}
                  THEN stress_enable_all_stressors(cfg.inst, opt.instances)
                  ELSE cfg.inst]
    /\ pc' = "discard"
    /\ UNCHANGED <<opt, cur, list, drv, ignore_permute, flags, handlers, kill_count,
                   result, shared, stats, checksums, status, proc, env, hist>>

\* lines 3458-3459 and, after the setup, lines 3533-3534
MainDiscard ==
    /\ pc \in {"discard", "discard_again"}
    /\ cfg' = [cfg EXCEPT !.ignore =
                  stress_exclude_pathological(
                      stress_exclude_unsupported(cfg.inst, cfg.ignore))]
    /\ pc' = IF pc = "discard" THEN "exclude" ELSE "main"
    /\ UNCHANGED <<opt, cur, list, drv, ignore_permute, flags, handlers, kill_count,
                   result, shared, stats, checksums, status, proc, env, hist>>

\* line 3463
MainExclude ==
    /\ pc = "exclude"
    /\ cfg' = [cfg EXCEPT !.ignore = stress_exclude(cfg.ignore)]
    /\ pc' = "random"
    /\ UNCHANGED <<opt, cur, list, drv, ignore_permute, flags, handlers, kill_count,
                   result, shared, stats, checksums, status, proc, env, hist>>

\* stress_set_random_stressors() up to its loop
SetRandomEnter ==
    /\ pc = "random"
    /\ IF "OPT_FLAGS_RANDOM" \notin opt.g_opt_flags
       THEN /\ pc' = "setup"
            /\ UNCHANGED <<drv, result>>
       ELSE IF \/ "OPT_FLAGS_SET" \in opt.g_opt_flags
               \/ stress_get_num_stressors(cfg.ignore) = 0
       THEN /\ pc' = "done"
            /\ result' = [result EXCEPT !.code = EXIT_FAILURE]
            /\ UNCHANGED drv
       ELSE /\ pc' = "random_loop"
            /\ drv' = [drv EXCEPT !.n = opt.random]
            /\ UNCHANGED result
    /\ UNCHANGED <<opt, cfg, cur, list, ignore_permute, flags, handlers, kill_count,
                   shared, stats, checksums, status, proc, env, hist>>

\* one pass of the loop of stress_set_random_stressors: stress_mwc32modn
\* draws i below n_procs
SetRandomPick ==
    /\ pc = "random_loop"
    /\ IF drv.n > 0
       THEN \E i \in 0 .. (stress_get_num_stressors(cfg.ignore) - 1) :
               LET ss == stress_get_nth_stressor(i, cfg.ignore)
               IN  IF ss = NIL
                   THEN UNCHANGED <<cfg, drv, pc>>
                   ELSE /\ cfg' = [cfg EXCEPT !.inst[ss] = @ + 1]
                        /\ drv' = [drv EXCEPT !.n = @ - 1]
                        /\ UNCHANGED pc
       ELSE /\ pc' = "setup"
            /\ UNCHANGED <<cfg, drv>>
    /\ UNCHANGED <<opt, cur, list, ignore_permute, flags, handlers, kill_count,
                   result, shared, stats, checksums, status, proc, env, hist>>

\* lines 3520-3528
MainSetup ==
    /\ pc = "setup"
    /\ cfg' = [cfg EXCEPT !.inst = stress_setup(cfg.inst, opt.instances)]
    /\ pc' = "discard_again"
    /\ UNCHANGED <<opt, cur, list, drv, ignore_permute, flags, handlers, kill_count,
                   result, shared, stats, checksums, status, proc, env, hist>>

\* SpecSelect: the selection of main followed by the run it sets up, for
\* --random N, --sequential, --all, --permute and --all with a --class whose
\* stressors stress_enable_classes put on the list; every stressor may be
\* pathological, unsupported or named in --exclude; bodies return
\* EXIT_SUCCESS and no signal arrives
SelectModes ==
    {[g_opt_flags |-> {"OPT_FLAGS_RANDOM"}, random |-> n, instances |-> 0, class |-> {}] :
        n \in 1 .. MaxRandom}
    \cup {[g_opt_flags |-> {f}, random |-> 0, instances |-> 1, class |-> {}] :
        f \in {"OPT_FLAGS_SEQUENTIAL", "OPT_FLAGS_ALL", "OPT_FLAGS_PERMUTE"}}
    \cup {[g_opt_flags |-> {"OPT_FLAGS_ALL", "OPT_FLAGS_SET"}, random |-> 0,
           instances |-> 1, class |-> stress_get_class_id(<<"i", "o">>)]}

\* main, lines 3639-3645: the regime the flags select
RegimeOf(g_opt_flags) ==
    IF "OPT_FLAGS_SEQUENTIAL" \in g_opt_flags THEN "sequential"
    ELSE IF "OPT_FLAGS_PERMUTE" \in g_opt_flags THEN "permute"
    ELSE "parallel"

InitSelect ==
    /\ \E m \in SelectModes, p \in BOOLEAN :
       \E pathological \in SUBSET Stressors, unsupported \in SUBSET Stressors,
          exclude \in SUBSET Stressors :
          /\ opt = [argv |-> << >>, optind |-> 1,
                    g_opt_flags |-> m.g_opt_flags \cup
                                    (IF p THEN {"OPT_FLAGS_PATHOLOGICAL"} ELSE {}),
                    class |-> m.class, listed |-> << >>,
                    info |-> [s \in Stressors |-> stress_get_class_id(<<"i", "o">>)],
                    random |-> m.random, instances |-> m.instances,
                    pathological |-> pathological, unsupported |-> unsupported,
                    exclude |-> exclude]
          /\ cfg = [inst |-> [s \in Stressors |-> 0],
                    ignore |-> [s \in Stressors |-> FALSE],
                    regime |-> RegimeOf(m.g_opt_flags),
                    abort |-> FALSE,
                    outcomes |-> ReadyOutcomes({EXIT_SUCCESS}),
                    killpoints |-> {}, bodysigs |-> {}, sysexit |-> FALSE,
                    oom |-> {FALSE}, timeout |-> FALSE, forkfail |-> FALSE,
                    sigs |-> 0, corrupt |-> 0, eagain |-> 0]
    /\ pc = "enable"
    /\ cur = [ss |-> NIL, j |-> 0, ck |-> FirstChecksum, pid |-> 0]
    /\ list = [next |-> [s \in Stressors |-> IF s < NumStressors THEN s + 1 ELSE NIL],
               head |-> NIL]
    /\ drv = [ss |-> NIL, next |-> NIL, i |-> 0, n |-> 0]
    /\ ignore_permute = [s \in Stressors |-> FALSE]
    /\ flags = [cont |-> TRUE, wait |-> TRUE, term |-> 0]
    /\ handlers = "main"
    /\ kill_count = 0
    /\ result = [success |-> TRUE, resource |-> TRUE, metrics |-> TRUE, code |-> -1]
    /\ shared = [caught_sigint |-> FALSE,
                 instance_count |-> [started |-> 0, exited |-> 0, reaped |-> 0, failed |-> 0]]
    /\ stats = [k \in SlotIds |-> ZeroStats]
    /\ checksums = [k \in SlotIds |-> ZeroChecksum]
    /\ status = [s \in Stressors |-> [b \in Buckets |-> 0]]
    /\ proc = [q \in SlotIds |-> NoProc]
    /\ env = [palrm |-> FALSE, sigs |-> 0, corrupt |-> 0, eagain |-> 0]
    /\ hist = [failed_exit |-> FALSE, forks |-> 0,
               class |-> [q \in SlotIds |-> 0], reap |-> [q \in SlotIds |-> 0],
               reap_unforked |-> FALSE, wstatus |-> -1, woomed |-> FALSE,
               fin |-> [k \in SlotIds |-> FALSE], fatal |-> 0, diag |-> FALSE,
               retry |-> FALSE, inrun |-> {}]

NextSelect ==
    \/ MainEnable
    \/ MainDiscard
    \/ MainExclude
    \/ SetRandomEnter
    \/ SetRandomPick
    \/ MainSetup
    \/ MainRun
    \/ RunSkip
    \/ RunLoopEnd
    \/ RunInitSlot
    \/ RunFork
    \/ RunPostFork
    \/ WaitPid
    \/ WaitDone
    \/ RunReturn
    \/ SeqLoop
    \/ PermLoop
    \/ MetricsCheck
    \/ MainExit
    \/ \E q \in SlotIds : ChildInit(q) \/ ChildStart(q) \/ ChildBodyReturn(q)

SpecSelect == InitSelect /\ [][NextSelect]_vars

\* SpecFatal: a parallel run of two workers during which the orchestrator
\* may be interrupted once and may receive one of the signals of a fault
FaultSignals == {SIGILL, SIGSEGV, SIGFPE, SIGBUS, SIGABRT}

FatalConfigs ==
    [inst : {[s \in Stressors |-> 1]},
     ignore : {[s \in Stressors |-> FALSE]},
     regime : {"parallel"},
     abort : BOOLEAN,
     outcomes : {ReadyOutcomes({EXIT_SUCCESS, EXIT_FAILURE})},
     killpoints : {{}},
     bodysigs : {{}},
     sysexit : {FALSE},
     oom : {{FALSE}},
     timeout : {FALSE},
     forkfail : {FALSE},
     sigs : {1},
     corrupt : {0},
     eagain : {0}]

InitFatal == \E c \in FatalConfigs : InitWith(c)

NextFatal ==
    \/ MainRun
    \/ RunSkip
    \/ RunLoopEnd
    \/ RunInitSlot
    \/ RunBreak
    \/ RunFork
    \/ RunPostFork
    \/ WaitPid
    \/ WaitDone
    \/ RunReturn
    \/ MetricsCheck
    \/ MainExit
    \/ SigInt
    \/ SigAlrm
    \/ \E signum \in FaultSignals : SigFatal(signum)
    \/ \E q \in SlotIds : ChildInit(q) \/ ChildStart(q) \/ ChildSkip(q) \/ ChildBodyReturn(q)

SpecFatal == InitFatal /\ [][NextFatal]_vars

(***************************************************************************)
(* The fork loop of stress_run() when fork() fails.                        *)
(***************************************************************************)
\* SpecFork: a parallel run of a single stressor (the other one of the list
\* is ignored) with 1 .. MaxInstances instances whose bodies return
\* EXIT_SUCCESS; no signal from the user, no timeout. fork() succeeds, fails
\* with EAGAIN up to MaxEagain times or at every call, or fails with another
\* error. The orchestrator and every worker are processes the kernel keeps
\* scheduling.
ForkConfigs ==
    [inst : {[s \in Stressors |-> n] : n \in 1 .. MaxInstances},
     ignore : {[s \in Stressors |-> s # t] : t \in Stressors},
     regime : {"parallel"},
     abort : {FALSE},
     outcomes : {[rc : {EXIT_SUCCESS}, counter : 0 .. MaxCounter,
                  ready : {TRUE}, fk : {FALSE}]},
     killpoints : {{}},
     bodysigs : {{}},
     sysexit : {FALSE},
     oom : {{FALSE}},
     timeout : {FALSE},
     forkfail : BOOLEAN,
     sigs : {0},
     corrupt : {0},
     eagain : {0, MaxEagain, ForkAlwaysEagain}]

InitFork == \E c \in ForkConfigs : InitWith(c)

OrchestratorFork ==
    \/ MainRun
    \/ RunSkip
    \/ RunLoopEnd
    \/ RunInitSlot
    \/ RunFork
    \/ RunForkEagain
    \/ RunForkFails
    \/ RunPostFork
    \/ WaitPid
    \/ WaitDone
    \/ RunReturn
    \/ MetricsCheck
    \/ MainExit

WorkerFork(q) ==
    \/ ChildInit(q)
    \/ ChildStart(q)
    \/ ChildSkip(q)
    \/ ChildBodyReturn(q)

NextFork == OrchestratorFork \/ \E q \in SlotIds : WorkerFork(q)

SpecFork ==
    /\ InitFork
    /\ [][NextFork]_vars
    /\ WF_vars(OrchestratorFork)
    /\ \A q \in SlotIds : WF_vars(WorkerFork(q))

(***************************************************************************)
(* A terminating signal sent to a worker.                                  *)
(***************************************************************************)
\* the worker q receives SIGTERM, whose handler it inherited from main
\* (lines 3504-3510): stress_handle_terminate (default branch) sets the
\* worker's terminate_signum, clears its continue flag and calls
\* stress_kill_stressors(SIGALRM, true) in the worker: the worker's copy of
\* count is 0 at fork, the slots are shared, a slot still at pid -1 makes it
\* kill(-1, SIGALRM), which reaches its siblings and its parent but not
\* itself. After the body the signals are blocked (line 1438).
ChildTerm(q) ==
    /\ ParentRuns
    /\ Live(proc[q])
    /\ proc[q].term = 0
    /\ WorkerDispositions(proc[q])[SIGTERM] = "stress_handle_terminate"
    /\ LET pr == [proc EXCEPT ![q].term = SIGTERM, ![q].cont = FALSE]
           hit == {stats[u[3]].pid : u \in KillTargets(stats, list.next)}
           kl == stress_kill_stressors(0, stats, pr, shared.caught_sigint,
                                       list.next, SIGALRM, TRUE)
       IN  /\ proc' = [kl.proc EXCEPT ![q] = IF q \in hit THEN @ ELSE pr[q]]
           /\ stats' = kl.stats
           /\ shared' = [shared EXCEPT
                           !.caught_sigint =
                               @ \/ \E r \in SlotIds :
                                      /\ r \in hit \/ (-1 \in hit /\ r # q)
                                      /\ DeliverSetsCaught(pr[r], SIGALRM)]
           /\ env' = [env EXCEPT !.palrm = @ \/ -1 \in hit]
    /\ UNCHANGED <<opt, cfg, pc, cur, list, drv, ignore_permute, flags, handlers,
                   kill_count, result, checksums, status, hist>>

\* SpecTerm: a parallel run of two stressors with one instance each, whose
\* bodies succeed or fail and leave counter_ready and force_killed in every
\* combination; a worker may receive one SIGTERM
TermConfigs ==
    [inst : {[s \in Stressors |-> 1]},
     ignore : {[s \in Stressors |-> FALSE]},
     regime : {"parallel"},
     abort : BOOLEAN,
     outcomes : {[rc : {EXIT_SUCCESS, EXIT_FAILURE}, counter : {MaxCounter},
                  ready : BOOLEAN, fk : BOOLEAN]},
     killpoints : {{}},
     bodysigs : {{}},
     sysexit : {FALSE},
     oom : {{FALSE}},
     timeout : {FALSE},
     forkfail : {FALSE},
     sigs : {0},
     corrupt : {0},
     eagain : {0}]

InitTerm == \E c \in TermConfigs : InitWith(c)

NextTerm ==
    \/ MainRun
    \/ RunSkip
    \/ RunLoopEnd
    \/ RunInitSlot
    \/ RunFork
    \/ RunPostFork
    \/ WaitPid
    \/ WaitDone
    \/ RunReturn
    \/ MetricsCheck
    \/ MainExit
    \/ SigAlrm
    \/ \E q \in SlotIds : \/ ChildInit(q)
                          \/ ChildStart(q)
                          \/ ChildSkip(q)
                          \/ ChildBodyReturn(q)
                          \/ ChildTerm(q)

SpecTerm == InitTerm /\ [][NextTerm]_vars

(***************************************************************************)
(* SpecAggr: a parallel run of two stressors, one instance each, with and  *)
(* without --aggressive; bodies succeed, fail or call exit(), a worker may *)
(* be killed, fork may fail, the run may time out, one user interrupt.     *)
(***************************************************************************)
AggrConfigs ==
    {c \in RunConfigs : c.regime = "parallel" /\ \A s \in Stressors : c.inst[s] = 1}

AggrOpts == {NoOpt, [NoOpt EXCEPT !.g_opt_flags = {"OPT_FLAGS_AGGRESSIVE"}]}

InitAggr == \E c \in AggrConfigs, o \in AggrOpts : InitRun(c, o)

NextAggr ==
    \/ Orchestrator
    \/ WaitAggressive
    \/ SigInt
    \/ Worker

SpecAggr == InitAggr /\ [][NextAggr]_vars

(***************************************************************************)
(* The updates of g_shared->instance_count as the workers execute them:    *)
(* counter++ on memory shared between processes is a load, an add and a    *)
(* store, and other workers run between the load and the store.            *)
(***************************************************************************)
\* the counter a worker updates at step i: started++ on entry (line 1378),
\* then exited++, started--, failed++ (lines 1539-1542, steps 7-9)
CounterAt(i) ==
    CASE i = 7 -> "exited"
      [] i = 9 -> "failed"
      [] OTHER -> "started"

\* the worker loads the counter it is about to update
ChildLoad(q) ==
    /\ ParentRuns
    /\ ~proc[q].reg.ld
    /\ \/ proc[q].state = "forked" /\ proc[q].reg.at = 0
       \/ /\ proc[q].state = "body"
          /\ proc[q].reg.at \in 7 .. LastStep
          /\ proc[q].reg.at = 9 => proc[q].reg.rc = EXIT_FAILURE
    /\ proc' = [proc EXCEPT ![q].reg.ld = TRUE,
                            ![q].reg.v = shared.instance_count[CounterAt(proc[q].reg.at)]]
    /\ UNCHANGED <<opt, cfg, pc, cur, list, drv, ignore_permute, flags, handlers, kill_count,
                   result, shared, stats, checksums, status, env, hist>>

\* the worker stores the value it computed from what it loaded
ChildStore(q) ==
    /\ ParentRuns
    /\ proc[q].reg.ld
    /\ LET r == proc[q].reg
           seen == [shared.instance_count EXCEPT ![CounterAt(r.at)] = r.v]
       IN  IF proc[q].state = "forked"
           THEN /\ shared' = [shared EXCEPT !.instance_count.started = r.v + 1]
                /\ proc' = [proc EXCEPT ![q].state = "init", ![q].reg = NoReg]
           ELSE LET m == ChildStep(r.at,
                                   [st |-> stats[q], ck |-> checksums[proc[q].ck],
                                    ic |-> seen, rc |-> r.rc, palrm |-> env.palrm,
                                    abort |-> cfg.abort, term |-> proc[q].term])
                IN  /\ shared' = [shared EXCEPT !.instance_count = m.ic]
                    /\ proc' = [proc EXCEPT ![q].reg =
                                  [at |-> r.at + 1, ld |-> FALSE, v |-> 0, rc |-> m.rc]]
    /\ UNCHANGED <<opt, cfg, pc, cur, list, drv, ignore_permute, flags, handlers, kill_count,
                   result, stats, checksums, status, env, hist>>

\* the stressor body returns o.rc and the worker runs lines 1467-1537, the
\* steps before the counters
ChildEpilogue(q) ==
    /\ ParentRuns
    /\ proc[q].state = "body"
    /\ proc[q].reg.at = 0
    /\ \E o \in cfg.outcomes :
          LET m == ChildSteps([st |-> [stats[q] EXCEPT !.counter = o.counter,
                                                       !.counter_ready = o.ready,
                                                       !.force_killed = o.fk],
                               ck |-> checksums[proc[q].ck],
                               ic |-> shared.instance_count, rc |-> o.rc,
                               palrm |-> env.palrm, abort |-> cfg.abort,
                               term |-> proc[q].term], 1, 6)
          IN  /\ stats' = [stats EXCEPT ![q] = m.st]
              /\ checksums' = [checksums EXCEPT ![proc[q].ck] = m.ck]
              /\ env' = [env EXCEPT !.palrm = m.palrm]
              /\ proc' = [proc EXCEPT ![q].reg =
                            [at |-> 7, ld |-> FALSE, v |-> 0, rc |-> m.rc]]
    /\ UNCHANGED <<opt, cfg, pc, cur, list, drv, ignore_permute, flags, handlers, kill_count,
                   result, shared, status, hist>>

\* return rc (line 1544) and the _exit(rc) of the caller
ChildReturn(q) ==
    /\ ParentRuns
    /\ proc[q].state = "body"
    /\ ~proc[q].reg.ld
    /\ \/ proc[q].reg.at > LastStep
       \/ proc[q].reg.at = 9 /\ proc[q].reg.rc # EXIT_FAILURE
    /\ proc' = [proc EXCEPT ![q].state = "zombie",
                            ![q].status = StatusExited(proc[q].reg.rc),
                            ![q].reg = NoReg]
    /\ hist' = [hist EXCEPT !.failed_exit = @ \/ proc[q].reg.rc = EXIT_FAILURE]
    /\ UNCHANGED <<opt, cfg, pc, cur, list, drv, ignore_permute, flags, handlers, kill_count,
                   result, shared, stats, checksums, status, env>>

\* SpecCount: a parallel run of two stressors, one instance each, whose
\* bodies succeed or fail, with the counter updates of the workers interleaved
CountConfigs ==
    [inst : {[s \in Stressors |-> 1]},
     ignore : {[s \in Stressors |-> FALSE]},
     regime : {"parallel"},
     abort : {FALSE},
     outcomes : {ReadyOutcomes({EXIT_SUCCESS, EXIT_FAILURE})},
     killpoints : {{}},
     bodysigs : {{}},
     sysexit : {FALSE},
     oom : {{FALSE}},
     timeout : {FALSE},
     forkfail : {FALSE},
     sigs : {0},
     corrupt : {0},
     eagain : {0}]

InitCount == \E c \in CountConfigs : InitWith(c)

NextCount ==
    \/ MainRun
    \/ RunSkip
    \/ RunLoopEnd
    \/ RunInitSlot
    \/ RunFork
    \/ RunPostFork
    \/ WaitPid
    \/ WaitDone
    \/ RunReturn
    \/ MetricsCheck
    \/ MainExit
    \/ \E q \in SlotIds :
          \/ ChildLoad(q)
          \/ ChildStore(q)
          \/ ChildStart(q)
          \/ ChildEpilogue(q)
          \/ ChildReturn(q)

SpecCount == InitCount /\ [][NextCount]_vars

(***************************************************************************)
(* Properties.                                                             *)
(***************************************************************************)
\* the checksum slot of arena slot k holds the slot's counter and run_ok and
\* the hash of {counter, run_ok, zero padding}
ChecksumValid(k) ==
    LET st == stats[k]
    IN  /\ st.checksum # NIL
        /\ checksums[st.checksum].counter = st.counter
        /\ checksums[st.checksum].run_ok = st.run_ok
        /\ checksums[st.checksum].hash = HashTable[st.counter][st.run_ok][0]

\* no stray write has touched the checksum table
Untouched == env.corrupt = cfg.corrupt

\* C1: when the orchestrator inspects the slots after the run, every slot
\* whose completed flag is set has a checksum slot that holds the slot's
\* counter and run_ok and the Jenkins hash of them, however the worker ended,
\* a worker killed between two steps after its body returned included
C1_CompletedChecksumValid ==
    (pc = "check" /\ Untouched) =>
        \A u \in UsedSlots : stats[u[3]].completed => ChecksumValid(u[3])

\* some completed slot of a not ignored stressor fails one of the four tests
C2_Dubious ==
    \E s \in Stressors, i \in Instances :
        /\ ~cfg.ignore[s]
        /\ i < cfg.inst[s]
        /\ stats[stress_setup_stats_buffers(s, i)].completed
        /\ ~ChecksumValid(stress_setup_stats_buffers(s, i))

C3_ExitCode ==
    pc = "done" =>
        result.code =
            CASE ~result.success -> EXIT_NOT_SUCCESS
              [] result.success /\ ~result.resource -> EXIT_NO_RESOURCE
              [] result.success /\ result.resource /\ ~result.metrics ->
                    EXIT_METRICS_UNTRUSTWORTHY
              [] result.success /\ result.resource /\ result.metrics ->
                    EXIT_SUCCESS

\* one worker ran out of resources, another has untrustworthy metrics, none
\* failed: the worse of the two is reported
C3_Witness ==
    /\ pc = "done"
    /\ result.success
    /\ ~result.resource
    /\ ~result.metrics
    /\ result.code = EXIT_NO_RESOURCE

\* C4: when at least one worker was counted in a stressor's FAILED bucket,
\* the exit code is EXIT_NOT_SUCCESS, for a worker that left by exit() too
C4_FailedMeansNotSuccess ==
    (pc = "done" /\ \E s \in Stressors : status[s]["FAILED"] > 0) =>
        result.code = EXIT_NOT_SUCCESS

\* this step is stress_wait_pid's ret > 0 branch for the worker q
Reaped(q) ==
    /\ pc = "run_wait"
    /\ proc[q].state = "zombie"
    /\ hist'.class[q] = hist.class[q] + 1

\* status changes in one place: bucket b of some stressor grows by one
BucketGrows(b) ==
    \E s \in Stressors : status' = [status EXCEPT ![s][b] = @ + 1]

\* do_abort with --abort: the continue flag and wait_flag are cleared and
\* the workers are signalled by one round of stress_kill_stressors
Aborts ==
    /\ flags'.cont = FALSE
    /\ flags'.wait = FALSE
    /\ kill_count' = kill_count + 1

NamedCodes ==
    {EXIT_SUCCESS, EXIT_NO_RESOURCE, EXIT_NOT_IMPLEMENTED, EXIT_SIGNALED,
     EXIT_BY_SYS_EXIT, EXIT_METRICS_UNTRUSTWORTHY, EXIT_FAILURE}

\* the classification table: the bucket, the flags that are cleared, abort
TableRow(code) ==
    CASE code = EXIT_SUCCESS ->
            [bucket |-> "PASSED", clears |-> {}, abort |-> FALSE]
      [] code = EXIT_NO_RESOURCE ->
            [bucket |-> "SKIPPED", clears |-> {"resource"}, abort |-> TRUE]
      [] code = EXIT_NOT_IMPLEMENTED ->
            [bucket |-> "SKIPPED", clears |-> {}, abort |-> TRUE]
      [] code = EXIT_SIGNALED ->
            [bucket |-> "NONE", clears |-> {}, abort |-> TRUE]
      [] code = EXIT_BY_SYS_EXIT ->
            [bucket |-> "FAILED", clears |-> {}, abort |-> TRUE]
      [] code = EXIT_METRICS_UNTRUSTWORTHY ->
            [bucket |-> "BAD_METRICS", clears |-> {"metrics"}, abort |-> FALSE]
      [] code = EXIT_FAILURE ->
            [bucket |-> "FAILED", clears |-> {"success"}, abort |-> TRUE]

TableStep(row) ==
    /\ IF row.bucket = "NONE" THEN status' = status ELSE BucketGrows(row.bucket)
    /\ result'.success = (result.success /\ "success" \notin row.clears)
    /\ result'.resource = (result.resource /\ "resource" \notin row.clears)
    /\ result'.metrics = (result.metrics /\ "metrics" \notin row.clears)
    /\ result'.code = result.code
    /\ IF cfg.abort /\ row.abort THEN Aborts
       ELSE flags' = flags /\ kill_count' = kill_count

\* C5: for a reaped worker that exited with one of the named codes,
\* stress_wait_pid changes exactly the bucket and the flags of the
\* classification table: one bucket by one (none for EXIT_SIGNALED), the
\* flags of the row, the abort of the row, and nothing else
C5_ClassificationTable ==
    [][\A q \in SlotIds :
          (/\ Reaped(q)
           /\ ~WIFSIGNALED(proc[q].status)
           /\ WEXITSTATUS(proc[q].status) \in NamedCodes)
          => TableStep(TableRow(WEXITSTATUS(proc[q].status)))]_vars

\* a worker that exited with EXIT_NO_RESOURCE under --abort was reaped
C5_Witness ==
    /\ hist.wstatus = StatusExited(EXIT_NO_RESOURCE)
    /\ cfg.abort
    /\ status[1]["SKIPPED"] = 1
    /\ ~result.resource
    /\ result.success
    /\ ~flags.cont
    /\ kill_count = 1

\* C6: for a reaped worker that exited with a code that is not named,
\* stress_wait_pid increments the FAILED bucket of the stressor, clears
\* success and raises the abort flag
C6_OtherCodesFail ==
    [][\A q \in SlotIds :
          (/\ Reaped(q)
           /\ ~WIFSIGNALED(proc[q].status)
           /\ WEXITSTATUS(proc[q].status) \notin NamedCodes)
          => /\ BucketGrows("FAILED")
             /\ result'.success = FALSE
             /\ cfg.abort => Aborts]_vars

\* C7: for a reaped worker that a signal terminated, stress_wait_pid clears
\* success if and only if the signal is neither SIGALRM nor SIGKILL and the
\* process was not found to be OOM killed
C7_SignalDeath ==
    [][\A q \in SlotIds :
          (Reaped(q) /\ WIFSIGNALED(proc[q].status))
          => result'.success =
                (result.success /\ ~(/\ WTERMSIG(proc[q].status) # SIGALRM
                                     /\ WTERMSIG(proc[q].status) # SIGKILL
                                     /\ ~proc[q].oomed))]_vars

\* a worker that died of SIGSEGV, not OOM killed, was reaped: success is
\* false although no worker is in a FAILED bucket
C7_Witness ==
    /\ hist.wstatus = StatusSignaled(SIGSEGV)
    /\ ~hist.woomed
    /\ ~result.success
    /\ \A s \in Stressors : status[s]["FAILED"] = 0

\* C8: at most once accounting: in a run the exit of a forked worker is
\* classified by stress_wait_pid at most once and at most one increment of
\* the reaped counter is due to it, whatever the signals, kills and waits
C8_AtMostOnce ==
    \A q \in SlotIds : hist.class[q] <= 1 /\ hist.reap[q] <= 1

\* a worker was classified and reaped in a run that a user interrupt and a
\* round of kills went through
C8_Witness ==
    /\ env.sigs < cfg.sigs
    /\ kill_count > 0
    /\ \E q \in SlotIds : hist.class[q] = 1 /\ hist.reap[q] = 1

\* C9: with --abort, once a worker has exited with a FAILED outcome no
\* fork happens any more, in any regime
C9_NoForkAfterFailedExit ==
    [][(cfg.abort /\ hist.failed_exit) => hist'.forks = hist.forks]_vars

\* C10: kill escalation: a round of the kill path beyond the fifth sends
\* SIGKILL to every worker that is still alive after its SIGALRM, so that
\* no such worker outlives the round
C10_EscalationKills ==
    [][(kill_count' # kill_count /\ kill_count' > 5) =>
          \A q \in SlotIds :
              (stats[q].pid = q /\ stats[q].signalled /\ Live(proc[q]))
              => ~Live(proc'[q])]_vars

\* C11: whenever the orchestrator handles a SIGINT (or SIGHUP), on return
\* caught_sigint is true, the continue flag and wait_flag are false, every
\* slot of a not ignored stressor that held a pid and was not yet signalled
\* has been sent SIGALRM and is now marked signalled, and no slot that was
\* already marked signalled is sent a signal again.
C11_SigintBroadcast ==
    [][env'.sigs # env.sigs =>
         /\ shared'.caught_sigint
         /\ ~flags'.cont
         /\ ~flags'.wait
         /\ \A u \in UsedSlots :
              LET k == u[3]
                  pid == stats[k].pid
              IN  /\ (pid # 0 /\ ~stats[k].signalled) =>
                        /\ stats'[k].signalled
                        /\ pid \in SlotIds =>
                              proc'[pid] = DeliverProc(proc[pid], SIGALRM)
                  /\ (stats[k].signalled /\ pid \in SlotIds) =>
                        proc'[pid] = proc[pid]]_vars

\* C12: in the sequential regime the workers that exist at any moment,
\* running or not yet reaped, belong to one stressor; a worker is forked
\* only while the continue flag is set, when no worker of another stressor
\* is left and no later stressor of the list has run; with the continue
\* flag clear the loop starts no further stressor; and when the regime has
\* finished the next links of the list are what they were.
C12_Sequential ==
    [][cfg.regime = "sequential" =>
         /\ \A u, v \in UsedSlots :
               (proc'[u[3]].state # "none" /\ proc'[v[3]].state # "none")
                  => u[1] = v[1]
         /\ \A u \in UsedSlots :
               (proc[u[3]].state = "none" /\ proc'[u[3]].state = "forked") =>
                  /\ flags.cont
                  /\ \A v \in UsedSlots :
                        /\ v[1] # u[1] => proc[v[3]].state = "none"
                        /\ v[1] > u[1] => stats[v[3]] = ZeroStats
         /\ (pc = "seq_loop" /\ ~flags.cont) => pc' # "run_loop"
         /\ pc' = "check" =>
               list'.next = [s \in Stressors |->
                                IF s < NumStressors THEN s + 1 ELSE NIL]]_vars

\* a sequential run that forked and reaped every instance of every stressor
C12_Witness ==
    /\ cfg.regime = "sequential"
    /\ pc = "check"
    /\ cfg.inst[2] = MaxInstances
    /\ \A u \in UsedSlots : hist.reap[u[3]] = 1
    /\ \A s \in Stressors : status[s]["PASSED"] + status[s]["FAILED"] = cfg.inst[s]

\* the slots stress_run dispatches in the run under way
InRun(u) ==
    LET walk == ListFrom(list.head, list.next)
    IN  /\ \E n \in 1 .. Len(walk) : walk[n] = u[1]
        /\ ~ignore_permute[u[1]]

NotIgnored == {s \in DOMAIN cfg.ignore : ~cfg.ignore[s]}

Selected(i) ==
    {s \in NotIgnored :
        LET j == Cardinality({t \in NotIgnored : t < s})
        IN  j < 16 /\ (i \div Pow2(j)) % 2 = 1}

\* C14: in the permutation regime, with k the number of not ignored
\* stressors or 16 if there are more, run i (1 <= i < 2^k) is dispatched
\* for exactly the stressors Selected(i), only these fork in it and, when
\* nothing clears the continue flag, all their instances do; i advances by
\* one per run; the regime ends with ignore.permute false on every stressor
\* and, when nothing cleared the continue flag, after run 2^k - 1.
C14_Permute ==
    [][cfg.regime = "permute" =>
         LET k == IF Cardinality(NotIgnored) < 16 THEN Cardinality(NotIgnored) ELSE 16
         IN  /\ ((pc = "perm_loop" /\ pc' = "run_loop") \/
                 (pc = "perm_many" /\ pc' = "perm_many")) =>
                   /\ drv.i \in 1 .. (Pow2(k) - 1)
                   /\ {s \in NotIgnored : ~ignore_permute'[s]} = Selected(drv.i)
             /\ (pc = "perm_many" /\ pc' = "perm_many") => drv'.i = drv.i + 1
             /\ (pc = "run_ret" /\ pc' # pc) =>
                   drv'.i = drv.i + 1 /\ pc' = "perm_loop"
             /\ pc \in {"run_loop", "run_again", "run_postfork", "run_wait"} =>
                   \A u \in UsedSlots :
                      /\ (proc[u[3]].state = "none" /\ proc'[u[3]].state = "forked")
                            => u[1] \in Selected(drv.i)
                      /\ (pc = "run_loop" /\ pc' = "run_wait" /\ flags.cont)
                            => (u[1] \in Selected(drv.i) <=> stats[u[3]].pid > 0)
             /\ (pc \in {"perm_loop", "perm_many"} /\ pc' \in {"check", "perm_end"}) =>
                   /\ \A s \in DOMAIN cfg.ignore : ~ignore_permute'[s]
                   /\ flags.cont => drv.i = Pow2(k)]_vars

\* the permutation regime over two stressors has run {1}, {2} and {1, 2}
\* and ended with the continue flag still set
C14_Witness ==
    /\ cfg.regime = "permute"
    /\ pc = "check"
    /\ flags.cont
    /\ Cardinality(NotIgnored) = NumStressors
    /\ drv.i = Pow2(NumStressors)
    /\ hist.forks = NumStressors * Pow2(NumStressors - 1)

Given(name) == \E n \in 1 .. Len(opt.argv) : opt.argv[n][1] = name

\* the combinations of options that conflict
Conflicting ==
    \/ Cardinality({o \in {"random", "sequential", "all", "permute"} : Given(o)}) > 1
    \/ Given("with") /\ ~(Given("sequential") \/ Given("all") \/ Given("permute"))
    \/ Given("class") /\ ~(Given("sequential") \/ Given("all") \/ Given("permute"))
    \/ Given("maximize") /\ Given("minimize")
    \/ Given("seed") /\ Given("no-rand-seed")
    \/ Given("stdout") /\ Given("stderr")

\* C16: a command line with conflicting options never gets past the sanity
\* checks of main, and when every option has been parsed it is rejected
\* with exit code EXIT_FAILURE, no worker forked.
C16_ConflictsRejected ==
    Conflicting =>
       /\ pc # "setup"
       /\ (pc = "done" /\ opt.optind > Len(opt.argv)) =>
             result.code = EXIT_FAILURE /\ hist.forks = 0

\* the tokens of a --class list, the known class names, the '?' queries
KnownClass(t) == \E i \in DOMAIN stress_classes : stress_classes[i] = t

ClassQuery(t) ==
    /\ Len(t) > 1
    /\ t[Len(t)] = "?"
    /\ KnownClass(SubSeq(t, 1, Len(t) - 1))

C18_StartedMinusExited ==
    shared.instance_count.started - shared.instance_count.exited
       = Cardinality({q \in SlotIds : proc[q].state \in {"init", "body"}})

\* C19: in every reachable state reaped <= started, also after workers have
\* exited and have been reaped.
C19_ReapedAtMostStarted ==
    shared.instance_count.reaped <= shared.instance_count.started

\* C20: when the fork loop of a run is over, the pid of every slot of a
\* stressor of the run's list is 0 if and only if the slot has been reaped
\* in this run: a slot whose fork was skipped is not left with a non-zero
\* pid, and a slot that was never forked is not 0 without having been reaped.
C20_PidZeroIffReaped ==
    pc = "run_wait" =>
       \A u \in UsedSlots :
          (\E n \in 1 .. Len(ListFrom(list.head, list.next)) :
              ListFrom(list.head, list.next)[n] = u[1])
             => (stats[u[3]].pid = 0 <=> hist.fin[u[3]])

\* the sum of the four status counters of a stressor
StatusSum(s) ==
    status[s]["PASSED"] + status[s]["FAILED"] + status[s]["SKIPPED"]
       + status[s]["BAD_METRICS"]

\* C21: for every stressor and in every regime, at every point of the run
\* the sum of the stressor's four status counters is at most its
\* num_instances.
C21_StatusSumBounded ==
    \A s \in DOMAIN status : StatusSum(s) <= num_instances(s)

\* the same for the runs of the parallel and the sequential regime
C21_OneRunRegimes ==
    cfg.regime # "permute" => C21_StatusSumBounded

\* the worker of slot q exists: it was forked and has not been reaped
Exists(q) == proc[q].state # "none"

\* this step is a step of the worker q that writes its slot
WorkerWrites(q) == ChildSkip(q) \/ ChildBodyReturn(q)

\* C22: between the fork of a worker and its reap the fields of its stats
\* slot are changed by steps of that worker only: no step of the
\* orchestrator, of a signal handler of the orchestrator or of another
\* worker writes a field of the slot.
C22_SlotOwnership ==
    [][\A q \in SlotIds :
          (Exists(q) /\ proc'[q].state # "none" /\ stats'[q] # stats[q])
             => WorkerWrites(q)]_vars

\* the sum of num_instances over the stressors that are not ignored
RECURSIVE SumInst(_)
SumInst(S) ==
    IF S = {} THEN 0
    ELSE LET s == CHOOSE t \in S : TRUE
         IN  (IF ignore_run(s) THEN 0 ELSE num_instances(s)) + SumInst(S \ {s})

\* C23: with --random N every pick lands on a stressor that is not ignored
\* and increments its num_instances by exactly 1, so that after the
\* selection the num_instances of the not ignored stressors sum to N and no
\* ignored stressor has its count changed, wherever the ignored stressors
\* are in the list, at its head too.
C23_RandomPicks ==
    /\ [][(pc = "random_loop" /\ cfg'.inst # cfg.inst) =>
             \E s \in Stressors :
                /\ ~ignore_run(s)
                /\ cfg'.inst = [cfg.inst EXCEPT ![s] = @ + 1]]_vars
    /\ []((pc = "setup" /\ "OPT_FLAGS_RANDOM" \in opt.g_opt_flags) =>
             /\ SumInst(Stressors) = opt.random
             /\ \A s \in Stressors : ignore_run(s) => num_instances(s) = 0)

\* the stressors Selection has to tag: named in --exclude, pathological
\* without --pathological, or refused by their supported hook
Tagged(s) ==
    \/ s \in opt.exclude
    \/ s \in opt.pathological /\ "OPT_FLAGS_PATHOLOGICAL" \notin opt.g_opt_flags
    \/ s \in opt.unsupported

Selecting ==
    pc \in {"enable", "discard", "exclude", "random", "random_loop", "setup",
            "discard_again"}

\* C24: no worker is ever forked for a stressor that Selection tagged as
\* ignored: when the selection is over every stressor that is named in
\* --exclude, is pathological without --pathological, or has instances and a
\* supported hook that refuses carries an ignore tag; no step clears an
\* ignore tag; and in every regime a fork is a fork for a stressor that is
\* none of these, as is every worker that exists.
C24_IgnoredNeverForked ==
    /\ [](~Selecting =>
            \A s \in Stressors :
               (\/ s \in opt.exclude
                \/ s \in opt.pathological /\ "OPT_FLAGS_PATHOLOGICAL" \notin opt.g_opt_flags
                \/ s \in opt.unsupported /\ num_instances(s) # 0)
                  => ignore_run(s))
    /\ [][\A s \in Stressors : cfg.ignore[s] => cfg'.ignore[s]]_vars
    /\ [][hist'.forks # hist.forks => ~Tagged(cur.ss) /\ ~ignore_run(cur.ss)]_vars
    /\ [](\A q \in SlotIds :
            proc[q].state # "none" =>
               \E u \in UsedSlots : u[3] = q /\ ~Tagged(u[1]))

\* a run has ended in which workers were forked while a stressor with
\* instances stayed ignored: an unsupported one that --random picked after
\* the first call of stress_exclude_unsupported
C24_Witness ==
    /\ pc = "done"
    /\ hist.forks > 0
    /\ "OPT_FLAGS_RANDOM" \in opt.g_opt_flags
    /\ \E s \in opt.unsupported \ (opt.exclude \cup opt.pathological) :
          num_instances(s) > 0 /\ ignore_run(s)

\* C25: when the orchestrator receives SIGILL, SIGSEGV, SIGFPE, SIGBUS or
\* SIGABRT the terminate handler runs: the diagnostic is written to fd 2,
\* every slot that holds a pid and is not marked signalled is sent SIGALRM
\* and marked, and the orchestrator exits with EXIT_SIGNALED (5).
C25_FatalSignals ==
    [][(hist'.fatal # hist.fatal
        /\ hist'.fatal \in {SIGILL, SIGSEGV, SIGFPE, SIGBUS, SIGABRT}) =>
          /\ hist'.diag
          /\ pc' = "exited"
          /\ result'.code = 5
          /\ \A u \in UsedSlots :
                (stats[u[3]].pid # 0 /\ ~stats[u[3]].signalled) =>
                   /\ stats'[u[3]].signalled
                   /\ stats[u[3]].pid \in SlotIds =>
                         proc'[stats[u[3]].pid] =
                            DeliverProc(proc[stats[u[3]].pid], SIGALRM)]_vars

\* C26: in every worker process, in every run of every regime, the second
\* and later runs of the sequential and permutation regimes included, the
\* signals SIGUSR1, SIGUSR2, SIGTTOU, SIGTTIN and SIGWINCH are ignored.
C26_WorkersIgnore ==
    \A q \in SlotIds :
       Live(proc[q]) =>
          \A sig \in {SIGUSR1, SIGUSR2, SIGTTOU, SIGTTIN, SIGWINCH} :
             WorkerDispositions(proc[q])[sig] = "SIG_IGN"

\* this step is the return of the body of worker q with the outcome o,
\* followed by the rest of stress_run_child up to step k
BodyReturns(q, o, k) ==
    /\ proc[q].state = "body"
    /\ ChildFinish(q, [stats[q] EXCEPT !.counter = o.counter,
                                       !.counter_ready = o.ready,
                                       !.force_killed = o.fk],
                   shared.instance_count, o.rc, 1, k)

KillInvoked ==
    \/ env'.sigs # env.sigs
    \/ env.palrm /\ ~env'.palrm /\ handlers = "run"
    \/ \E q \in SlotIds :
          /\ Reaped(q)
          /\ cfg.abort
          /\ Classify(proc[q].status, proc[q].oomed).do_abort
    \/ pc \in {"run_again", "run_postfork"} /\ pc' = "run_wait"

\* C28: the escalation counter of stress_kill_stressors counts every
\* invocation, whoever the caller is, and an invocation after the fifth
\* sends SIGKILL in place of the requested signal to the workers it signals.
C28_EscalationAnyCaller ==
    [][KillInvoked =>
          /\ kill_count' = kill_count + 1
          /\ \A u \in UsedSlots :
                LET pid == stats[u[3]].pid
                IN  (pid \in SlotIds /\ ~stats[u[3]].signalled /\ Live(proc[pid])) =>
                       proc'[pid] = DeliverProc(proc[pid],
                                       IF kill_count + 1 > 5 THEN SIGKILL ELSE SIGALRM)]_vars

\* the orchestrator handles a SIGALRM with stress_sigalrm_handler
AlrmHandled ==
    env.palrm /\ ~env'.palrm /\ handlers = "run" /\ pc' # "dead"

\* C29: when the orchestrator handles SIGALRM, afterwards the continue flag
\* and wait_flag are false and every live unsignalled worker of the run has
\* been sent SIGALRM and marked signalled, as for SIGINT, so that the loops
\* that test the continue flag start no further worker or stressor.
C29_AlrmAsSigint ==
    [][AlrmHandled =>
          /\ ~flags'.cont
          /\ ~flags'.wait
          /\ \A u \in UsedSlots :
                LET pid == stats[u[3]].pid
                IN  (pid \in SlotIds /\ ~stats[u[3]].signalled /\ Live(proc[pid])) =>
                       /\ proc'[pid] = DeliverProc(proc[pid], SIGALRM)
                       /\ stats'[u[3]].signalled]_vars

\* the orchestrator is in the fork loop of stress_run (lines 1579-1647)
ForkLoop == pc \in {"run_loop", "run_again", "run_postfork"}

\* fork() failed with an error other than EAGAIN (lines 1612-1615)
ForkFailed == pc = "run_again" /\ pc' = "run_wait"

\* C30: the handling of a failing fork() terminates: the fork loop ends,
\* also when fork() fails with EAGAIN at every call, because the retries are
\* bounded; when fork() fails with another error every live worker started
\* so far is sent SIGALRM, and once the orchestrator has left the fork loop
\* to wait for its workers nothing more is forked in the run.
C30_ForkFailureTerminates ==
    /\ ForkLoop ~> ~ForkLoop
    /\ [][ForkFailed =>
             \A u \in UsedSlots :
                LET pid == stats[u[3]].pid
                IN  (pid \in SlotIds /\ ~stats[u[3]].signalled /\ Live(proc[pid])) =>
                       /\ proc'[pid] = DeliverProc(proc[pid], SIGALRM)
                       /\ stats'[u[3]].signalled]_vars
    /\ [][(~ForkLoop /\ pc # "main") => (hist'.forks = hist.forks /\ ~ForkLoop')]_vars

\* the exit code of a worker whose body returned rc with the given
\* counter_ready and force_killed, and whose terminate_signum is term
FinalCode(rc, ready, fk, term) ==
    IF term # 0 THEN EXIT_SIGNALED
    ELSE IF ~ready /\ ~fk THEN EXIT_METRICS_UNTRUSTWORTHY
    ELSE rc

C32_ReapedExactlyOnce ==
    pc = "run_ret" =>
       /\ shared.instance_count.reaped = hist.forks
       /\ ~hist.reap_unforked
       /\ \A q \in SlotIds : hist.reap[q] <= 1
       /\ \A u \in UsedSlots : stats[u[3]].pid = 0

\* the parent finds the time of the run used up at line 1594
TimedOut == pc = "run_loop" /\ cur.ss # NIL /\ pc' = "run_wait"

\* C33: when the parent finds, at the start of an instance's turn in the
\* fork loop, that the run's time is up, it forks nothing, installs its
\* signal handlers and goes to wait with the pid of every worker forked so
\* far in its slot; while it waits nothing is forked, and when the wait has
\* returned no worker is left.
C33_TimeoutStopsForking ==
    /\ [][TimedOut =>
             /\ handlers' = stress_set_handler
             /\ hist'.forks = hist.forks
             /\ proc' = proc
             /\ stats' = stats
             /\ \A q \in SlotIds : proc[q].state # "none" => stats[q].pid = q]_vars
    /\ [][pc = "run_wait" =>
             (hist'.forks = hist.forks /\ pc' \in {"run_wait", "run_ret"})]_vars
    /\ [](pc = "run_ret" => \A q \in SlotIds : proc[q].state = "none")

\* the time was up at the turn of the second stressor: the orchestrator
\* waits, with its handlers, for the one worker it forked
C33_Witness ==
    /\ pc = "run_wait"
    /\ cfg.regime = "parallel"
    /\ flags.cont
    /\ handlers = stress_set_handler
    /\ hist.forks = 1
    /\ \A u \in UsedSlots : stats[u[3]].pid # -1
    /\ \E u \in UsedSlots : stats[u[3]].pid = 0 /\ ~hist.fin[u[3]]
    /\ \E q \in SlotIds : Live(proc[q]) /\ stats[q].pid = q

\* stress_get_total_num_instances(stressors_head): the size of the arena
\* and of the checksum table
RECURSIVE TotalFrom(_)
TotalFrom(s) == IF s > NumStressors THEN 0 ELSE num_instances(s) + TotalFrom(s + 1)

TotalInstances == TotalFrom(1)

\* the slots whose worker was forked by the current call of stress_run
ForkedInRun == hist.inrun

\* C34: stress_setup_stats_buffers gives the instances of the not ignored
\* stressors distinct slots of the arena of TotalInstances slots; the
\* workers forked by one call of stress_run have distinct checksum slots
\* inside the table; and no two workers that exist at the same time share a
\* stats slot or a checksum slot.
C34_SlotsInjective ==
    /\ \A u, v \in UsedSlots :
          /\ u[3] \in 1 .. TotalInstances
          /\ u[3] = v[3] => u = v
    /\ \A q, r \in ForkedInRun :
          /\ stats[q].checksum \in 1 .. TotalInstances
          /\ q # r => stats[q].checksum # stats[r].checksum
    /\ \A q, r \in SlotIds :
          (q # r /\ proc[q].state # "none" /\ proc[r].state # "none") =>
             /\ proc[q].ck # proc[r].ck
             /\ proc[q].ck = stats[q].checksum

\* two workers of a parallel run exist at the same time, each with its own
\* stats slot and checksum slot
C34_Witness ==
    /\ cfg.regime = "parallel"
    /\ \E q, r \in SlotIds :
          /\ q # r
          /\ Live(proc[q]) /\ Live(proc[r])
          /\ stats[q].pid = q /\ stats[r].pid = r
          /\ proc[q].ck # proc[r].ck
          /\ hist.inrun = {q, r}

\* C35: in the permutation regime, when the runs have stopped (after the
\* last permutation or because the continue flag was cleared), every slot
\* with completed set points to a checksum slot that holds what that
\* instance wrote last, so that stress_metrics_check finds no corruption
\* when no memory was corrupted.
C35_PermuteChecksumsKept ==
    (cfg.regime = "permute" /\ pc = "check" /\ env.corrupt = cfg.corrupt) =>
        \A u \in UsedSlots :
            stats[u[3]].completed => ~SlotCorrupt(stats[u[3]], checksums)

\* C36: a worker that was terminated by a signal is never counted in the
\* PASSED bucket of its stressor when it is reaped.
C36_SignalledNeverPassed ==
    [][\A q \in SlotIds :
          (Reaped(q) /\ WIFSIGNALED(proc[q].status)) =>
              \A s \in Stressors : status'[s]["PASSED"] = status[s]["PASSED"]]_vars

\* C37: no exit status is lost: a worker that has exited is reaped only by the
\* waitpid of stress_wait_pid, which classifies its status, also with
\* --aggressive.
C37_NoStatusLost ==
    [][\A q \in SlotIds :
          (proc[q].state = "zombie" /\ proc'[q].state = "none") =>
              hist'.class[q] = hist.class[q] + 1]_vars

\* the pids stress_kill_stressors passes to kill() when it runs in this state
KilledPids == {stats[u[3]].pid : u \in KillTargets(stats, list.next)}

\* C38: when a signal handler of the orchestrator runs stress_kill_stressors,
\* whatever the fork loop was doing, every pid it signals is the pid of a
\* worker that was forked and is not yet reaped; it is never -1.
C38_KillOnlyLiveWorkers ==
    [][env'.sigs # env.sigs =>
          \A p \in KilledPids : p > 0 /\ proc[p].state # "none"]_vars

\* C39: whenever a SIGALRM sent by a worker to the orchestrator is pending,
\* the orchestrator has its SIGALRM handler installed, in the fork loop of the
\* first run too; the signal never ends the orchestrator by its default action.
C39_AlrmHandlerInstalled ==
    (ParentRuns /\ env.palrm) => handlers = "run"

\* the workers of the run have all been forked and have all exited
AllExited ==
    /\ pc \in {"run_wait", "run_ret"}
    /\ hist.inrun # {}
    /\ \A q \in hist.inrun : ~Live(proc[q])

RECURSIVE FailedBucket(_)
FailedBucket(S) ==
    IF S = {} THEN 0
    ELSE LET s == CHOOSE x \in S : TRUE
         IN  status[s]["FAILED"] + FailedBucket(S \ {s})

\* the workers that exited with EXIT_FAILURE: those not yet reaped and those
\* stress_wait_pid has classified
FailedExits ==
    Cardinality({q \in SlotIds : /\ proc[q].state = "zombie"
                                 /\ proc[q].status = StatusExited(EXIT_FAILURE)})
       + FailedBucket(Stressors)

\* C40: the shared instance counters are exact for every interleaving of the
\* workers' updates: failed <= exited in every state, and once all workers of
\* the run have exited, exited is the number of workers that ran, started is
\* back to its value before the run and failed is the number of workers that
\* exited with EXIT_FAILURE.
C40_CountersExact ==
    /\ shared.instance_count.failed <= shared.instance_count.exited
    /\ AllExited =>
          /\ shared.instance_count.exited = Cardinality(hist.inrun)
          /\ shared.instance_count.started = 0
          /\ shared.instance_count.failed = FailedExits

====
